---- MODULE Spec2Model ----
(***************************************************************************)
(* A model of the pool-risk service's data layer and analyzers:            *)
(*   - GraphPaginator (fetch_all, _execute_with_retry)  : SpecFetch        *)
(*   - CacheManager (get, set), one call at a time      : SpecCache        *)
(*   - CacheManager under concurrent calls on one key   : SpecCacheConc    *)
(*   - the four risk analyzers' analyze                  : SpecAnalyze      *)
(* Each component has its own specification over the shared variables; the *)
(* variables of the other components stay at their initial values.         *)
(***************************************************************************)
EXTENDS Integers, Sequences, FiniteSets, TLC

\* ------------------------------------------------------------------ bounds
\* Record ids served by the indexer are drawn from 1..MaxId.
MaxId == 5
\* pagination.batch_size is drawn from 1..MaxBatch.
MaxBatch == 3
\* pagination.max_retries is drawn from 0..MaxRetries.
MaxRetries == 3
\* cache.static_data_ttl_seconds is drawn from 1..MaxTTL.
MaxTTL == 2
\* The wall clock runs from 0 to MaxClock seconds.
MaxClock == 3
\* The OS-level writes one json.dump of a cache file takes (a payload larger
\* than the file object's buffer is flushed in several writes).
NChunks == 2
\* The threads that call the cache concurrently are 1..NThreads.
NThreads == 3
\* Position lists of every length up to MaxPos are analysed (and a few longer).
MaxPos == 3
\* A position's liquidity is drawn from 1..MaxLiq.
MaxLiq == 2
\* Swap lists of every length up to MaxSwaps are analysed.
MaxSwaps == 3
\* Tick lists of every length up to MaxTicks are analysed.
MaxTicks == 2
\* Day lists (poolDayDatas) of every length up to MaxDays are analysed.
MaxDays == 3
\* Component scores are drawn from the NScores + 1 even steps of 0..100.
NScores == 3
MaxProposal == 2
MaxRequests == 2
MaxLoads == 3
NCoroutines == 3

VARIABLES
    \* --- GraphPaginator configuration (utils.py:28-31) and the indexer
    dataset,        \* the ids of the records matching the query, on the server
    ranking,        \* these ids in the order of the query's orderBy
    batch_size,     \* self.batch_size
    max_retries,    \* self.max_retries
    \* --- fetch_all / _execute_with_retry locals
    fpc,            \* "idle" | "attempt" | "done" | "failed"
    all_entities,   \* fetch_all: all_entities
    last_id,        \* fetch_all: last_id ("" is 0, below every id)
    attempt,        \* _execute_with_retry: the loop variable
    fresult,        \* what fetch_all returned (NoResult until it returns)
    ferror,         \* the exception that left fetch_all ("" when none)
    \* --- history of the run
    call,           \* how many _execute_with_retry calls fetch_all has made
    pages,          \* the pages received, in order
    netlog          \* every network attempt: [call, cursor, outcome]

VARIABLES
    \* --- CacheManager configuration (utils.py:138-141) and its environment
    enabled,        \* self.enabled
    cache_entities, \* self.cache_entities: the per-entity switch table
    static_ttl,     \* self.static_ttl
    now,            \* datetime.now(), in seconds
    store,          \* the cache directory: path -> file
    \* --- one call at a time
    lastcall,       \* the last get/set call: arguments, file before/after, outcome
    \* --- concurrent calls on one key
    pc,             \* thread -> position in get/set
    tl,             \* thread -> locals of its call
    completed       \* the set calls that finished writing, in that order

cacheVars == <<enabled, cache_entities, static_ttl, now, store, lastcall,
               pc, tl, completed>>

VARIABLES
    \* --- the analyzers
    config,         \* self.config: risk_thresholds and queries
    analysis,       \* the analyze call made: [analyzer, size, result]
    analysis_raised, \* the analyze call that raised: [analyzer, fetch_error, raised]
    analysis_locals \* the data the call fetched and what its detection steps returned

analyzeVars == <<config, analysis, analysis_raised, analysis_locals>>

VARIABLES
    \* --- the scorer
    weights,        \* self.weights: analyzer -> weight
    risk_levels,    \* self.risk_levels: the bands, in the order of the config
    scored          \* what the score call made returned

scoreVars == <<weights, risk_levels, scored>>

VARIABLES
    \* --- the plan-execute graph
    registered,     \* the keys of self.tools_by_name
    graph_state,    \* the OverallState dict of the run
    node,           \* the node the graph runs next ("END" when the run is over)
    step,           \* inside execute_tools: "enter" | "gather" | "composite"
    tasks,          \* execute_tools: the coroutines given to asyncio.gather
    results,        \* execute_tools: results
    plan_result,    \* what the planner call returned or raised
    visited,        \* the nodes run so far, in order
    calls           \* the oracle and tool invocations made so far, in order

planVars == <<registered, graph_state, node, step, tasks, results, plan_result,
              visited, calls>>

VARIABLES
    \* --- the top-level orchestrator
    remote_agent_connections, \* the keys of self.remote_agent_connections
    resolved,           \* the agents whose card the latest discover_agents call fetched
    overall_state,      \* the OverallState dict of the request being handled
    orch_node,          \* the node the graph runs next ("END" between requests)
    orch_visited,       \* the nodes run for this request, in order
    sent,               \* the send_message calls of this request: [agent, raised]
    requests_handled    \* the requests the instance was given so far

orchVars == <<remote_agent_connections, resolved, overall_state, orch_node,
              orch_visited, sent, requests_handled>>

VARIABLES
    \* --- the pool-risk agent and its static pipeline
    mcp_available,  \* self.mcp_available
    mcp_tools,      \* self.mcp_tools: the names of the tools loaded
    graph_instance, \* self.graph_instance: the graph class built last
    agent_pc,       \* "new" before __init__ | "ready" | "running" the static graph
    run_state,      \* the OverallState dict of the static graph's run
    run_node,       \* the node the static graph runs next
    probe,          \* what the startup probe of the MCP endpoint gave
    loads,          \* what each _init_mcp_tools call gave, in order
    served,         \* per request: the graph used, what it raised, its answer
    analyzed,       \* run_analyses: the analyze calls made, each with what it raised
    coroutines      \* concurrent invoke calls: where each is, and the graph it ran

agentVars == <<mcp_available, mcp_tools, graph_instance, agent_pc, run_state,
               run_node, probe, loads, served, analyzed, coroutines>>

fetchVars == <<dataset, ranking, batch_size, max_retries, fpc, all_entities, last_id,
               attempt, fresult, ferror, call, pages, netlog>>

vars == <<fetchVars, cacheVars, analyzeVars, scoreVars, planVars, orchVars, agentVars>>

\* What each component leaves alone: the variables of the others.
notFetch == <<cacheVars, analyzeVars, scoreVars, planVars, orchVars, agentVars>>
notCache == <<fetchVars, analyzeVars, scoreVars, planVars, orchVars, agentVars>>
notAnalyze == <<fetchVars, cacheVars, scoreVars, planVars, orchVars, agentVars>>
notScore == <<fetchVars, cacheVars, analyzeVars, planVars, orchVars, agentVars>>
notPlan == <<fetchVars, cacheVars, analyzeVars, scoreVars, orchVars, agentVars>>
notOrch == <<fetchVars, cacheVars, analyzeVars, scoreVars, planVars, agentVars>>
notAgent == <<fetchVars, cacheVars, analyzeVars, scoreVars, planVars, orchVars>>

NoResult == "NoResult"

\* ---------------------------------------------------------------- helpers
Last(s) == s[Len(s)]

\* text contains part.
Contains(text, part) ==
    \E i \in 1..(Len(text) - Len(part) + 1) : SubSeq(text, i, i + Len(part) - 1) = part

Min(S) == CHOOSE x \in S : \A y \in S : x <= y

RECURSIVE SortedSeq(_)
\* The elements of a finite set of integers, ascending.
SortedSeq(S) == IF S = {} THEN <<>> ELSE <<Min(S)>> \o SortedSeq(S \ {Min(S)})

Prefix(s, n) == SubSeq(s, 1, IF n < Len(s) THEN n ELSE Len(s))

Range(s) == {s[i] : i \in 1..Len(s)}

RECURSIVE Concat(_)
\* The concatenation of a sequence of sequences.
Concat(ss) == IF ss = <<>> THEN <<>> ELSE ss[1] \o Concat(Tail(ss))

\* ------------------------------------------------------------ the indexer
\* What the indexer answers to
\*   entity(first: $batch_size, where: {id_gt: $last_id}, orderBy: ...)
\* : the first records, in the order of the query, of those past the cursor.
\* The order is by id, ascending, for positions and ticks
\* (concentration_risk.py:80-89, liquidity_depth_risk.py:87-96) and by
\* timestamp, descending, for swaps (behavioral_risk.py:79-87).
ServerPage(cursor, first) ==
    Prefix(SelectSeq(ranking, LAMBDA id : id > cursor), first)

\* ------------------------------------------------------ GraphPaginator code
\* utils.py:97  for attempt in range(self.max_retries)
RetryRange_Extra == 0..max_retries
RetryRange == 0..(max_retries - 1)

\* utils.py:114  except requests.exceptions.RequestException
Caught(exc) == exc = "RequestException"

\* utils.py:115  if attempt == self.max_retries - 1
LastAttempt(a) == a = max_retries - 1

\* utils.py:69  all_entities.extend(entities)
Extend_Overwrite(all, entities) == entities
Extend(all, entities) == all \o entities

\* utils.py:72  last_id = entities[-1][id_field]
NextCursor(entities) == Last(entities)

\* utils.py:75  if len(entities) < self.batch_size: break
IsLastPage_Inclusive(entities) == Len(entities) <= batch_size
IsLastPage(entities) == Len(entities) < batch_size

LogAttempt(outcome) ==
    netlog' = Append(netlog, [call |-> call, cursor |-> last_id, outcome |-> outcome])

\* An exception leaves _execute_with_retry; fetch_all has no handler, so it
\* leaves fetch_all too and all_entities is dropped with the frame.
Raise(msg) ==
    /\ fpc' = "failed"
    /\ ferror' = msg
    /\ fresult' = NoResult

\* fetch_all returns all_entities (utils.py:81).
Return(entities) ==
    /\ fpc' = "done"
    /\ fresult' = entities
    /\ ferror' = ""

\* fetch_all is called: utils.py:53-61, up to the first network attempt.
FetchAll ==
    /\ fpc = "idle"
    /\ all_entities' = <<>>
    /\ last_id' = 0
    /\ call' = 1
    /\ attempt' = 0
    /\ IF 0 \in RetryRange
         THEN /\ fpc' = "attempt"
              /\ UNCHANGED <<fresult, ferror>>
         ELSE Raise("Unexpected error in retry logic")      \* utils.py:123
    /\ UNCHANGED <<dataset, ranking, batch_size, max_retries, pages, netlog, notFetch>>

\* One network attempt answered 2xx without "errors" (utils.py:99-112), and
\* fetch_all's processing of the page up to the next attempt (utils.py:64-79).
AttemptOk ==
    /\ fpc = "attempt"
    /\ attempt \in RetryRange
    /\ LET entities == ServerPage(last_id, batch_size) IN
       /\ LogAttempt("ok")
       /\ pages' = Append(pages, entities)
       /\ IF entities = <<>>
            THEN /\ Return(all_entities)                     \* utils.py:66-67
                 /\ UNCHANGED <<all_entities, last_id, attempt, call>>
            ELSE /\ all_entities' = Extend(all_entities, entities)
                 /\ last_id' = NextCursor(entities)
                 /\ IF IsLastPage(entities)
                      THEN /\ Return(Extend(all_entities, entities))
                           /\ UNCHANGED <<attempt, call>>
                      ELSE /\ attempt' = 0
                           /\ call' = call + 1
                           /\ UNCHANGED <<fpc, fresult, ferror>>
    /\ UNCHANGED <<dataset, ranking, batch_size, max_retries, notFetch>>

\* What follows an exception raised inside the try block (utils.py:114-123).
AfterException(exc, msg) ==
    IF ~Caught(exc)
      THEN /\ Raise(msg)
           /\ UNCHANGED attempt
      ELSE IF LastAttempt(attempt)
        THEN /\ Raise("Query failed after retries")          \* utils.py:117
             /\ UNCHANGED attempt
        ELSE IF attempt + 1 \in RetryRange
          THEN /\ attempt' = attempt + 1                     \* utils.py:120
               /\ UNCHANGED <<fpc, fresult, ferror>>
          ELSE /\ Raise("Unexpected error in retry logic")   \* utils.py:123
               /\ UNCHANGED attempt

\* One network attempt that fails at the transport or HTTP level: a timeout,
\* a connection error, or a non-2xx status turned into HTTPError by
\* raise_for_status (utils.py:99-104).
AttemptRequestFails ==
    /\ fpc = "attempt"
    /\ attempt \in RetryRange
    /\ LogAttempt("request_exception")
    /\ AfterException("RequestException", "RequestException")
    /\ UNCHANGED <<dataset, ranking, batch_size, max_retries, all_entities, last_id,
                   call, pages, notFetch>>

\* One network attempt answered 2xx with a GraphQL "errors" array: the code
\* raises a plain Exception inside the try block (utils.py:109-110).
AttemptGraphQLErrors ==
    /\ fpc = "attempt"
    /\ attempt \in RetryRange
    /\ LogAttempt("graphql_errors")
    /\ AfterException("Exception", "GraphQL errors")
    /\ UNCHANGED <<dataset, ranking, batch_size, max_retries, all_entities, last_id,
                   call, pages, notFetch>>

\* ============================================================ CacheManager
Keys == {"k1"}
Data == {"d1", "d2"}
EntityTypes == {"ticks", "swaps", "positions"}
None == "None"

\* utils.py:219-220  sha256 of the key, as a file name: one path per key.
GetCachePath(key) == <<"sha256", key>>
Paths == {GetCachePath(k) : k \in Keys}

\* --- files.  A file is a sequence of blocks, one per OS-level write; block
\* i of a dump of JSON value v is [val |-> v, part |-> i].
NoFile == [exists |-> FALSE, content |-> <<>>]
File(content) == [exists |-> TRUE, content |-> content]

\* datetime.now().isoformat() (utils.py:200): a string fromisoformat reads back.
IsoFormat(t) == [type |-> "iso", t |-> t]

\* The JSON object set writes (utils.py:199-203).
CacheData(t, entity_type, data) ==
    [json |-> "object", has_cached_at |-> TRUE, cached_at |-> IsoFormat(t),
     entity_type |-> entity_type, has_data |-> TRUE, data |-> data]

\* json.dump(cache_data, f) (utils.py:206), as the blocks it writes.
JsonDump(v) == [i \in 1..NChunks |-> [val |-> v, part |-> i]]

\* A JSON text that is not an object (a list, a string, null).
NonObject ==
    [json |-> "nonobject", has_cached_at |-> FALSE, cached_at |-> IsoFormat(0),
     entity_type |-> "", has_data |-> FALSE, data |-> None]
Invalid == [NonObject EXCEPT !.json = "invalid"]
Torn == [NonObject EXCEPT !.json = "torn"]
\* Bytes that are no block of any dump (a hole, garbage).
Garbage == [val |-> NonObject, part |-> 0]

\* json.load(f) (utils.py:168): the values the text may parse to, Invalid
\* standing for JSONDecodeError.  A text made of the blocks of one dump
\* parses to the value dumped; the blocks of different dumps, each in its
\* place, may or may not make a well-formed text (Torn when they do); any
\* other text (empty, truncated, garbage) is not JSON.
JsonLoad(content) ==
    IF /\ Len(content) = NChunks
       /\ \A i \in 1..NChunks : content[i].part = i
      THEN IF \A i \in 1..NChunks : content[i].val = content[1].val
             THEN {content[1].val}
             ELSE {Invalid, Torn}
      ELSE {Invalid}

\* utils.py:158/194  not self.enabled or not self.cache_entities.get(entity_type, False)
Participates_DefaultOn(entity_type) ==
    enabled /\ (IF entity_type \in DOMAIN cache_entities
                  THEN cache_entities[entity_type] ELSE TRUE)
Participates(entity_type) ==
    enabled /\ (IF entity_type \in DOMAIN cache_entities
                  THEN cache_entities[entity_type] ELSE FALSE)

\* utils.py:172  datetime.now() - cached_at > timedelta(seconds=self.static_ttl)
Expired_Inclusive(t, cached_at) == t - cached_at >= static_ttl
Expired(t, cached_at) == t - cached_at > static_ttl

\* What get does with the value it parsed (utils.py:168-183):
\*   ret    what it returns (None when it returns None or raises),
\*   evict  "expired" (os.remove at line 174), "corrupt" (the except clause,
\*          lines 179-183) or "no",
\*   raised the exception that leaves get ("" when none).
Outcome(ret, evict, raised) == [ret |-> ret, evict |-> evict, raised |-> raised]

Decide(v, t) ==
    IF v.json = "invalid" THEN Outcome(None, "corrupt", "")           \* JSONDecodeError
    ELSE IF v.json = "torn" THEN Outcome("Torn", "no", "")
    ELSE IF v.json # "object" THEN Outcome(None, "no", "TypeError")   \* cache_data["cached_at"]
    ELSE IF ~v.has_cached_at THEN Outcome(None, "corrupt", "")        \* KeyError
    ELSE IF v.cached_at.type = "nonstr"
           THEN Outcome(None, "no", "TypeError")                      \* fromisoformat(non-str)
    ELSE IF v.cached_at.type # "iso" THEN Outcome(None, "corrupt", "") \* ValueError
    ELSE IF Expired(t, v.cached_at.t) THEN Outcome(None, "expired", "")
    ELSE IF ~v.has_data THEN Outcome(None, "corrupt", "")             \* KeyError
    ELSE Outcome(v.data, "no", "")

GetOutcomes(content, t) == {Decide(v, t) : v \in JsonLoad(content)}

NoLocals == [op |-> "none", payload |-> NonObject, written |-> 0, orphan |-> FALSE,
             ret |-> None, raised |-> ""]

NoCall == [op |-> "none", key |-> "", entity_type |-> "", at |-> 0,
           before |-> NoFile, after |-> NoFile, opened |-> FALSE,
           ret |-> None, raised |-> ""]

\* --- one call at a time: each action is a whole call.

\* CacheManager.get(key, entity_type) (utils.py:147-183).
CacheGet(key, entity_type) ==
    LET path == GetCachePath(key)
        f == store[path]
        rec(after, opened, ret, raised) ==
            [op |-> "get", key |-> key, entity_type |-> entity_type, at |-> now,
             before |-> f, after |-> after, opened |-> opened,
             ret |-> ret, raised |-> raised]
    IN  /\ IF ~Participates(entity_type) \/ ~f.exists
             THEN /\ lastcall' = rec(f, FALSE, None, "")
                  /\ UNCHANGED store
             ELSE \E o \in GetOutcomes(f.content, now) :
                    LET after == IF o.evict = "no" THEN f ELSE NoFile IN
                    /\ store' = [store EXCEPT ![path] = after]
                    /\ lastcall' = rec(after, TRUE, o.ret, o.raised)
        /\ UNCHANGED <<enabled, cache_entities, static_ttl, now, pc, tl, completed, notCache>>

\* CacheManager.set(key, entity_type, data) (utils.py:185-206).
CacheSet(key, entity_type, data) ==
    LET path == GetCachePath(key)
        f == store[path]
        after == IF Participates(entity_type)
                   THEN File(JsonDump(CacheData(now, entity_type, data)))
                   ELSE f
    IN  /\ store' = [store EXCEPT ![path] = after]
        /\ lastcall' = [op |-> "set", key |-> key, entity_type |-> entity_type,
                        at |-> now, before |-> f, after |-> after,
                        opened |-> Participates(entity_type),
                        ret |-> None, raised |-> ""]
        /\ UNCHANGED <<enabled, cache_entities, static_ttl, now, pc, tl, completed, notCache>>

\* The wall clock advances.
Tick ==
    /\ now < MaxClock
    /\ now' = now + 1
    /\ UNCHANGED <<enabled, cache_entities, static_ttl, store, lastcall, pc, tl, completed, notCache>>

\* The ways a cache file gets damaged outside the program.
Damage(v) ==
    { [v EXCEPT !.has_cached_at = FALSE],
      [v EXCEPT !.has_data = FALSE],
      [v EXCEPT !.cached_at = [type |-> "bad", t |-> 0]],
      [v EXCEPT !.cached_at = [type |-> "nonstr", t |-> 0]] }

Damaged(content) ==
    {<<>>, <<content[1]>>, <<Garbage>>, JsonDump(NonObject)}
      \cup {JsonDump(v) : v \in Damage(content[1].val)}

\* A file written by set is damaged on disk.
Corrupt(path) ==
    /\ store[path].exists
    /\ \E v \in JsonLoad(store[path].content) :
          v.json = "object" /\ v.has_cached_at /\ v.has_data /\ v.cached_at.type = "iso"
    /\ \E c \in Damaged(store[path].content) :
          store' = [store EXCEPT ![path] = File(c)]
    /\ UNCHANGED <<enabled, cache_entities, static_ttl, now, lastcall, pc, tl, completed, notCache>>

\* --- concurrent calls on one key: each action is one step of a call, cut
\* at the file-system calls.  A thread makes one call.
ConcKey == "k1"
ConcPath == GetCachePath(ConcKey)
ConcType == "ticks"

Finish(p, ret, raised) ==
    /\ pc' = [pc EXCEPT ![p] = "done"]
    /\ tl' = [tl EXCEPT ![p].ret = ret, ![p].raised = raised]

\* set is called: utils.py:194-203, up to open().
TCallSet(p, data) ==
    /\ pc[p] = "idle"
    /\ IF Participates(ConcType)
         THEN /\ pc' = [pc EXCEPT ![p] = "s_open"]
              /\ tl' = [tl EXCEPT ![p].op = "set",
                                  ![p].payload = CacheData(now, ConcType, data)]
         ELSE /\ pc' = [pc EXCEPT ![p] = "done"]
              /\ tl' = [tl EXCEPT ![p].op = "set"]
    /\ UNCHANGED <<enabled, cache_entities, static_ttl, now, store, lastcall, completed, notCache>>

\* open(cache_file, 'w') (utils.py:205): creates the file or truncates it.
TOpenWrite(p) ==
    /\ pc[p] = "s_open"
    /\ store' = [store EXCEPT ![ConcPath] = File(<<>>)]
    /\ pc' = [pc EXCEPT ![p] = "s_write"]
    /\ tl' = [tl EXCEPT ![p].orphan = FALSE, ![p].written = 0]
    /\ UNCHANGED <<enabled, cache_entities, static_ttl, now, lastcall, completed, notCache>>

\* A write at the descriptor's own offset: block i lands at place i.
PutAt(content, i, blk) ==
    IF i <= Len(content)
      THEN [content EXCEPT ![i] = blk]
      ELSE content \o [j \in 1..(i - Len(content) - 1) |-> Garbage] \o <<blk>>

\* One OS-level write of json.dump (utils.py:206); the last one ends the call.
\* A descriptor whose file was removed writes to a file no path names.
TWrite(p) ==
    /\ pc[p] = "s_write"
    /\ LET i == tl[p].written + 1
           blk == [val |-> tl[p].payload, part |-> i]
       IN  /\ IF tl[p].orphan
                THEN UNCHANGED store
                ELSE store' = [store EXCEPT ![ConcPath] =
                                  File(PutAt(store[ConcPath].content, i, blk))]
           /\ tl' = [tl EXCEPT ![p].written = i]
           /\ IF i = NChunks
                THEN /\ pc' = [pc EXCEPT ![p] = "done"]
                     /\ completed' = Append(completed, p)
                ELSE UNCHANGED <<pc, completed>>
    /\ UNCHANGED <<enabled, cache_entities, static_ttl, now, lastcall, notCache>>

\* get is called: utils.py:158-161.
TCallGet(p) ==
    /\ pc[p] = "idle"
    /\ pc' = [pc EXCEPT ![p] = IF Participates(ConcType) THEN "g_exists" ELSE "done"]
    /\ tl' = [tl EXCEPT ![p].op = "get"]
    /\ UNCHANGED <<enabled, cache_entities, static_ttl, now, store, lastcall, completed, notCache>>

\* os.path.exists(cache_file) (utils.py:163-164).
TExists(p) ==
    /\ pc[p] = "g_exists"
    /\ IF store[ConcPath].exists
         THEN /\ pc' = [pc EXCEPT ![p] = "g_open"]
              /\ UNCHANGED tl
         ELSE Finish(p, None, "")
    /\ UNCHANGED <<enabled, cache_entities, static_ttl, now, store, lastcall, completed, notCache>>

\* open(cache_file, 'r'), json.load and the checks on the value read
\* (utils.py:167-177), up to the next file-system call.
TOpenRead(p) ==
    /\ pc[p] = "g_open"
    /\ IF ~store[ConcPath].exists
         THEN Finish(p, None, "FileNotFoundError")
         ELSE \E o \in GetOutcomes(store[ConcPath].content, now) :
                IF o.evict = "no"
                  THEN Finish(p, o.ret, o.raised)
                  ELSE /\ pc' = [pc EXCEPT ![p] =
                                   IF o.evict = "expired" THEN "g_remove" ELSE "g_recheck"]
                       /\ UNCHANGED tl
    /\ UNCHANGED <<enabled, cache_entities, static_ttl, now, store, lastcall, completed, notCache>>

\* os.remove(cache_file): the path is gone; the descriptors open on the file
\* keep it, unnamed.  FileNotFoundError when the path is already gone.
Remove(p) ==
    IF ~store[ConcPath].exists
      THEN /\ Finish(p, None, "FileNotFoundError")
           /\ UNCHANGED store
      ELSE /\ store' = [store EXCEPT ![ConcPath] = NoFile]
           /\ pc' = [pc EXCEPT ![p] = "done"]
           /\ tl' = [q \in 1..NThreads |->
                       IF pc[q] = "s_write" THEN [tl[q] EXCEPT !.orphan = TRUE] ELSE tl[q]]

\* The expired branch (utils.py:174-175).
TRemoveExpired(p) ==
    /\ pc[p] = "g_remove"
    /\ Remove(p)
    /\ UNCHANGED <<enabled, cache_entities, static_ttl, now, lastcall, completed, notCache>>

\* The except clause's os.path.exists (utils.py:181).
TRecheck(p) ==
    /\ pc[p] = "g_recheck"
    /\ IF store[ConcPath].exists
         THEN /\ pc' = [pc EXCEPT ![p] = "g_remove_c"]
              /\ UNCHANGED tl
         ELSE Finish(p, None, "")
    /\ UNCHANGED <<enabled, cache_entities, static_ttl, now, store, lastcall, completed, notCache>>

\* The except clause's os.remove (utils.py:182-183).
TRemoveCorrupt(p) ==
    /\ pc[p] = "g_remove_c"
    /\ Remove(p)
    /\ UNCHANGED <<enabled, cache_entities, static_ttl, now, lastcall, completed, notCache>>

\* ================================================================ analyzers
\* --- numbers.  The analyzers compute in floating point.  The model computes
\* the same quantities exactly, as fractions <<n, d>> with d > 0, and a value
\* rounded to k decimals is reported as the integer value * 10^k.
RECURSIVE GCD(_, _)
GCD(a, b) == IF b = 0 THEN a ELSE GCD(b, a % b)

Abs(n) == IF n < 0 THEN -n ELSE n

Frac(n, d) ==
    LET g == GCD(Abs(n), d)
    IN  <<n \div g, d \div g>>

Whole(n) == <<n, 1>>
\* Common factors are taken out before multiplying, to stay within 32 bits.
Add(q, r) ==
    LET g == GCD(q[2], r[2])
    IN  Frac(q[1] * (r[2] \div g) + r[1] * (q[2] \div g), (q[2] \div g) * r[2])

Neg(q) == <<-q[1], q[2]>>
Sub(q, r) == Add(q, Neg(r))

Mul(q, r) ==
    LET g == GCD(Abs(q[1]), r[2])
        h == GCD(Abs(r[1]), q[2])
    IN  Frac((q[1] \div g) * (r[1] \div h), (q[2] \div h) * (r[2] \div g))

DivBy(q, n) == Mul(q, <<1, n>>)

Gt(q, r) ==
    LET g == GCD(q[2], r[2])
    IN  q[1] * (r[2] \div g) > r[1] * (q[2] \div g)

Lt(q, r) == Gt(r, q)
MinOf(q, r) == IF Gt(q, r) THEN r ELSE q

RECURSIVE Pow10(_)
Pow10(k) == IF k = 0 THEN 1 ELSE 10 * Pow10(k - 1)

\* Python's round: to the nearest integer, a tie to the even one.
RoundHalfEven(n, d) ==
    LET q == n \div d
        r == n - q * d
    IN  IF 2 * r < d THEN q
        ELSE IF 2 * r > d THEN q + 1
        ELSE IF q % 2 = 0 THEN q ELSE q + 1

\* round(q, k), as the integer q * 10^k rounded.
Round(q, k) ==
    LET g == GCD(Pow10(k), q[2])
    IN  RoundHalfEven(q[1] * (Pow10(k) \div g), q[2] \div g)

\* int(round(q))
IntRound(q) == RoundHalfEven(q[1], q[2])

RECURSIVE Sum(_)
Sum(s) == IF s = <<>> THEN 0 ELSE s[1] + Sum(Tail(s))

RECURSIVE Insert(_, _)
Insert(x, s) ==
    IF s = <<>> THEN <<x>>
    ELSE IF x <= s[1] THEN <<x>> \o s
    ELSE <<s[1]>> \o Insert(x, Tail(s))

\* np.sort / sorted: ascending.
RECURSIVE Sorted(_)
Sorted(s) == IF s = <<>> THEN <<>> ELSE Insert(s[1], Sorted(Tail(s)))

Reverse(s) == [i \in 1..Len(s) |-> s[Len(s) + 1 - i]]

SeqsUpTo(S, n) == UNION {[1..k -> S] : k \in 0..n}

\* --- the configuration (config.json): thresholds as fractions.  Two of
\* them, the second with the thresholds out of the way of small pools.
Config(lax) ==
    [risk_thresholds |->
        [concentration |->
            [top10_dominance_critical_pct |-> IF lax THEN Whole(100) ELSE Whole(80),
             top10_dominance_high_risk_pct |-> IF lax THEN Whole(90) ELSE Whole(50),
             gini_critical |-> Frac(4, 5),
             gini_high_risk |-> Frac(3, 5),
             hhi_critical |-> IF lax THEN Whole(10000) ELSE Whole(2500),
             hhi_high_risk |-> IF lax THEN Whole(5000) ELSE Whole(1500)],
         liquidity_depth |->
            [price_impact_100k_critical_pct |-> IF lax THEN Whole(5) ELSE Frac(1, 2),
             price_impact_100k_high_pct |-> IF lax THEN Whole(1) ELSE Frac(1, 10),
             price_impact_1m_critical_pct |-> IF lax THEN Whole(20) ELSE Whole(8),
             price_impact_1m_high_pct |-> IF lax THEN Whole(10) ELSE Whole(1),
             active_liquidity_low_pct |-> Whole(30),
             tvl_volatility_high_pct |-> Whole(50)],
         market_risk |->
            [utilization_rate_critical_low |-> Frac(1, 100),
             utilization_rate_low |-> IF lax THEN Frac(1, 20) ELSE Frac(1, 10),
             price_correlation_high_il_risk |-> Whole(0),
             price_correlation_low_il_risk |-> Frac(3, 10)],
         behavioral |->
            [wash_trading_critical_pct |-> IF lax THEN Whole(150) ELSE Whole(20),
             wash_trading_high_pct |-> IF lax THEN Whole(100) ELSE Whole(10),
             mev_exposure_critical_pct |-> IF lax THEN Whole(50) ELSE Whole(15),
             mev_exposure_high_pct |-> IF lax THEN Whole(20) ELSE Whole(5)]],
     queries |-> [lp_age_thresholds_days |-> [mercenary |-> 7, long_term |-> 90]]]

Configs == {Config(lax) : lax \in BOOLEAN}

\* --- what every analyzer's _generate_risk_flags ends with.
FlagsOrLowRisk_Bare(flags) == flags

FlagsOrLowRisk(flags) == IF flags # <<>> THEN flags ELSE <<"LOW_RISK">>

\* ------------------------------------------------ ConcentrationRiskAnalyzer
TopN == 10
SecondsPerDay == 86400
MercenaryLiquidityPct == 50

\* The ages of positions, in days, the analysed lists draw from.
AgeDays == {1, 30, 365}

Position(liquidity, days) == [liquidity |-> liquidity, age_seconds |-> days * SecondsPerDay]

\* _fetch_positions keeps positions with liquidity > 0.
Positions == {Position(l, d) : l \in 1..MaxLiq, d \in AgeDays}

\* Every short list, and lists of TopN and more equal positions.
PositionLists ==
    SeqsUpTo(Positions, MaxPos)
        \cup {[i \in 1..n |-> Position(l, d)] :
                n \in {TopN, 11, 20}, l \in 1..MaxLiq, d \in AgeDays}

CalculateGini(values) ==
    LET sorted_values == Sorted(values)
        n == Len(sorted_values)
        weighted == Sum([i \in 1..n |-> i * sorted_values[i]])
    IN  Sub(Frac(2 * weighted, n * Sum(sorted_values)), Frac(n + 1, n))

CalculateHHI_Fractions(values, total) ==
    Frac(Sum([i \in 1..Len(values) |-> values[i] * values[i]]), total * total)

CalculateHHI(values, total) ==
    Frac(Sum([i \in 1..Len(values) |-> values[i] * values[i]]) * 10000, total * total)

CalculateTopNDominance(values, total, n) ==
    LET sorted_values == Reverse(Sorted(values))
        top_n_sum == Sum(SubSeq(sorted_values, 1, Min({n, Len(values)})))
    IN  Frac(top_n_sum * 100, total)

CalculateLpAgeDistribution(positions) ==
    LET mercenary_threshold == config.queries.lp_age_thresholds_days.mercenary * SecondsPerDay
        long_term_threshold == config.queries.lp_age_thresholds_days.long_term * SecondsPerDay
        Class(pos) == IF pos.age_seconds < mercenary_threshold THEN "mercenary"
                      ELSE IF pos.age_seconds < long_term_threshold THEN "medium_term"
                      ELSE "long_term"
        Of(c) == SelectSeq(positions, LAMBDA pos : Class(pos) = c)
        Liquidity(c) == Sum([i \in 1..Len(Of(c)) |-> Of(c)[i].liquidity])
        total_liquidity == Liquidity("mercenary") + Liquidity("medium_term") + Liquidity("long_term")
    IN  [c \in {"mercenary", "medium_term", "long_term"} |->
            [count |-> Len(Of(c)),
             liquidity_pct |-> IF total_liquidity > 0
                               THEN Round(Frac(Liquidity(c) * 100, total_liquidity), 2)
                               ELSE 0]]

ConcentrationRiskFlags(gini, hhi, top10_dominance, lp_age_dist) ==
    LET thresholds == config.risk_thresholds.concentration
        flags ==
            (IF Gt(top10_dominance, thresholds.top10_dominance_critical_pct)
                THEN <<"CRITICAL_TOP10_DOMINANCE">>
             ELSE IF Gt(top10_dominance, thresholds.top10_dominance_high_risk_pct)
                THEN <<"HIGH_TOP10_DOMINANCE">>
             ELSE <<>>)
            \o (IF Gt(gini, thresholds.gini_critical) THEN <<"CRITICAL_GINI">>
                ELSE IF Gt(gini, thresholds.gini_high_risk) THEN <<"HIGH_GINI">>
                ELSE <<>>)
            \o (IF Gt(hhi, thresholds.hhi_critical) THEN <<"CRITICAL_HHI">>
                ELSE IF Gt(hhi, thresholds.hhi_high_risk) THEN <<"HIGH_HHI">>
                ELSE <<>>)
            \o (IF lp_age_dist["mercenary"].liquidity_pct > MercenaryLiquidityPct * Pow10(2)
                THEN <<"HIGH_MERCENARY_LIQUIDITY">>
                ELSE <<>>)
    IN  FlagsOrLowRisk(flags)

ConcentrationRiskScore(gini, hhi, top10_dominance) ==
    LET gini_score == Mul(gini, Whole(100))
        hhi_score == MinOf(Mul(DivBy(hhi, 10000), Whole(100)), Whole(100))
        dominance_score == top10_dominance
        composite == DivBy(Add(Add(gini_score, hhi_score), dominance_score), 3)
    IN  IntRound(composite)

\* analyze, given what _fetch_positions returned.
ConcentrationAnalyze(positions) ==
    IF positions = <<>>
    THEN [error |-> "No positions found for this pool",
          gini |-> None,
          hhi |-> None,
          top10_dominance_pct |-> None,
          lp_age_distribution |-> None,
          risk_flags |-> <<"NO_DATA">>]
    ELSE LET liquidity_values == [i \in 1..Len(positions) |-> positions[i].liquidity]
             total_liquidity == Sum(liquidity_values)
             gini == CalculateGini(liquidity_values)
             hhi == CalculateHHI(liquidity_values, total_liquidity)
             top10_dominance == CalculateTopNDominance(liquidity_values, total_liquidity, TopN)
             lp_age_dist == CalculateLpAgeDistribution(positions)
         IN  [gini_coefficient |-> Round(gini, 4),
              herfindahl_hirschman_index |-> Round(hhi, 2),
              top10_dominance_pct |-> Round(top10_dominance, 2),
              lp_age_distribution |-> lp_age_dist,
              total_positions |-> Len(positions),
              risk_flags |-> ConcentrationRiskFlags(gini, hhi, top10_dominance, lp_age_dist),
              risk_score |-> ConcentrationRiskScore(gini, hhi, top10_dominance)]

NoAnalysis == [analyzer |-> "", size |-> 0, result |-> [risk_flags |-> <<>>]]
NoRaise == [analyzer |-> "", fetch_error |-> "", raised |-> ""]

Analyzed(analyzer, size, result) == [analyzer |-> analyzer, size |-> size, result |-> result]

\* The locals of an analyze call: the fetched data, and for the behavioral
\* analyzer the tuples _detect_wash_trading and _detect_sandwich_attacks return.
NoFetched == [fetched |-> <<>>, wash |-> <<>>, mev |-> <<>>]
Fetched(data) == [fetched |-> data, wash |-> <<>>, mev |-> <<>>]

AnalyzeConcentration ==
    /\ analysis = NoAnalysis
    /\ analysis_raised = NoRaise
    /\ \E positions \in PositionLists :
        /\ analysis' = Analyzed("concentration", Len(positions), ConcentrationAnalyze(positions))
        /\ analysis_locals' = Fetched(positions)
    /\ UNCHANGED <<config, analysis_raised, notAnalyze>>

\* --------------------------------------------------- LiquidityDepthAnalyzer
\* np.sqrt, to as many decimals (at most 4) as 32-bit arithmetic allows:
\* the largest k / 10^d with (k / 10^d)^2 <= n.
RECURSIVE ISqrt(_, _, _)
ISqrt(n, lo, hi) ==
    IF lo >= hi THEN lo
    ELSE LET mid == (lo + hi + 1) \div 2
         IN  IF mid * mid <= n THEN ISqrt(n, mid, hi) ELSE ISqrt(n, lo, mid - 1)

\* 46340 is the largest integer whose square fits 32 bits.
Sqrt(n) ==
    LET d == IF n <= 21 THEN 4 ELSE IF n <= 2147 THEN 3 ELSE IF n <= 214748 THEN 2 ELSE 0
    IN  Frac(ISqrt(n * Pow10(2 * d), 0, Min({Pow10(d) * (n + 1), 46340})), Pow10(d))

\* 1 / np.sqrt(n), to 4 decimals: the largest k / 10^4 with (k / 10^4)^2 * n <= 1.
RECURSIVE IInvSqrt(_, _, _)
IInvSqrt(n, lo, hi) ==
    IF lo >= hi THEN lo
    ELSE LET mid == (lo + hi + 1) \div 2
         IN  IF mid * mid <= Pow10(8) \div n THEN IInvSqrt(n, mid, hi) ELSE IInvSqrt(n, lo, mid - 1)

InvSqrt(n) == Frac(IInvSqrt(n, 0, Pow10(4)), Pow10(4))

\* Square root of a fraction, through the one of an integer.
SqrtOf(q) == DivBy(Sqrt(q[1] * q[2]), q[2])

\* liquidityGross is counted in units of 10^14, whose square root is 10^7.
SqrtLiquidityUnit == Pow10(7)
\* int(np.log(1.1) / np.log(1.0001))
TickSpacing == 953
Sell100k == 100000
Sell1m == 1000000

\* The tick the current price falls in, int(np.log(price) / np.log(1.0001)).
CurrentTicks == {0}
TickData(tickIdx, liquidityGross) == [tickIdx |-> tickIdx, liquidityGross |-> liquidityGross]

\* Ticks with liquidityNet other than 0: liquidityGross is positive.
Ticks == {TickData(i, g) : i \in {-2000, 0, 953}, g \in {1, 3}}
TickLists == SeqsUpTo(Ticks, MaxTicks)

\* The tvlUSD of the days of poolDayDatas.
TvlLists == SeqsUpTo({0, 1, 3}, MaxDays)

SimulateSellOrder(ticks, sell_amount_usd) ==
    LET total_liquidity == Sum([i \in 1..Len(ticks) |-> Abs(ticks[i].liquidityGross)])
        impact == Mul(Mul(Frac(sell_amount_usd, SqrtLiquidityUnit), InvSqrt(total_liquidity)),
                      Whole(100))
    IN  IF total_liquidity = 0 THEN Whole(100)
        ELSE MinOf(impact, Whole(100))

CalculateActiveLiquidity(ticks, current_tick) ==
    LET lower_bound == current_tick - TickSpacing
        upper_bound == current_tick + TickSpacing
        total_liquidity == Sum([i \in 1..Len(ticks) |-> Abs(ticks[i].liquidityGross)])
        active == SelectSeq(ticks, LAMBDA t : lower_bound <= t.tickIdx /\ t.tickIdx <= upper_bound)
        active_liquidity == Sum([i \in 1..Len(active) |-> Abs(active[i].liquidityGross)])
    IN  IF ticks = <<>> \/ total_liquidity = 0 THEN Whole(0)
        ELSE Frac(active_liquidity * 100, total_liquidity)

\* _calculate_tvl_volatility, given the tvlUSD column of pool_day_data:
\* np.std / np.mean = sqrt(n * sum(x^2) - sum(x)^2) / sum(x).
CalculateTvlVolatility(tvl_values) ==
    LET n == Len(tvl_values)
        s == Sum(tvl_values)
        ss == Sum([i \in 1..n |-> tvl_values[i] * tvl_values[i]])
    IN  IF n < 2 \/ s = 0 THEN Whole(0)
        ELSE Mul(DivBy(Sqrt(n * ss - s * s), s), Whole(100))

LiquidityRiskFlags(impact_100k, impact_1m, active_liquidity_pct, tvl_volatility) ==
    LET thresholds == config.risk_thresholds.liquidity_depth
        flags ==
            (IF Gt(impact_100k, thresholds.price_impact_100k_critical_pct)
                THEN <<"CRITICAL_SLIPPAGE_100K">>
             ELSE IF Gt(impact_100k, thresholds.price_impact_100k_high_pct)
                THEN <<"HIGH_SLIPPAGE_100K">>
             ELSE <<>>)
            \o (IF Gt(impact_1m, thresholds.price_impact_1m_critical_pct)
                    THEN <<"CRITICAL_SLIPPAGE_1M">>
                ELSE IF Gt(impact_1m, thresholds.price_impact_1m_high_pct)
                    THEN <<"HIGH_SLIPPAGE_1M">>
                ELSE <<>>)
            \o (IF Lt(active_liquidity_pct, thresholds.active_liquidity_low_pct)
                    THEN <<"LOW_ACTIVE_LIQUIDITY">>
                ELSE <<>>)
            \o (IF Gt(tvl_volatility, thresholds.tvl_volatility_high_pct)
                    THEN <<"HIGH_TVL_VOLATILITY">>
                ELSE <<>>)
    IN  FlagsOrLowRisk(flags)

LiquidityRiskScore(impact_100k, impact_1m, active_liquidity_pct, tvl_volatility) ==
    LET impact_score == MinOf(Mul(DivBy(Add(impact_100k, impact_1m), 2), Whole(10)), Whole(100))
        inactive_liquidity_score == Sub(Whole(100), active_liquidity_pct)
        volatility_score == MinOf(Mul(tvl_volatility, Whole(2)), Whole(100))
        composite == Add(Add(Mul(impact_score, Frac(1, 2)),
                             Mul(inactive_liquidity_score, Frac(3, 10))),
                         Mul(volatility_score, Frac(1, 5)))
    IN  IntRound(composite)

\* analyze, given what _fetch_ticks returned, the tick of current_price and
\* the tvlUSD of the pool_day_data _calculate_tvl_volatility obtained.
LiquidityAnalyze(ticks, current_tick, tvl_values) ==
    IF ticks = <<>>
    THEN [error |-> "No tick data found for this pool",
          price_impact_100k |-> None,
          price_impact_1m |-> None,
          active_liquidity_pct |-> None,
          tvl_volatility_pct |-> None,
          risk_flags |-> <<"NO_DATA">>]
    ELSE LET impact_100k == SimulateSellOrder(ticks, Sell100k)
             impact_1m == SimulateSellOrder(ticks, Sell1m)
             active_liquidity_pct == CalculateActiveLiquidity(ticks, current_tick)
             tvl_volatility == CalculateTvlVolatility(tvl_values)
         IN  [price_impact_100k_pct |-> Round(impact_100k, 4),
              price_impact_1m_pct |-> Round(impact_1m, 4),
              active_liquidity_pct |-> Round(active_liquidity_pct, 2),
              tvl_volatility_30d_pct |-> Round(tvl_volatility, 2),
              total_ticks |-> Len(ticks),
              risk_flags |-> LiquidityRiskFlags(impact_100k, impact_1m,
                                                active_liquidity_pct, tvl_volatility),
              risk_score |-> LiquidityRiskScore(impact_100k, impact_1m,
                                                active_liquidity_pct, tvl_volatility)]

AnalyzeLiquidity ==
    /\ analysis = NoAnalysis
    /\ analysis_raised = NoRaise
    /\ \E ticks \in TickLists, current_tick \in CurrentTicks, tvl_values \in TvlLists :
        /\ analysis' = Analyzed("liquidity_depth", Len(ticks),
                                LiquidityAnalyze(ticks, current_tick, tvl_values))
        /\ analysis_locals' = Fetched(<<ticks, current_tick, tvl_values>>)
    /\ UNCHANGED <<config, analysis_raised, notAnalyze>>

\* ------------------------------------------------------- MarketRiskAnalyzer
TargetUtilization == Frac(1, 20)
MediumIlCorrelation == Frac(7, 10)

DayData(tvlUSD, volumeUSD, token0Price, token1Price) ==
    [tvlUSD |-> tvlUSD, volumeUSD |-> volumeUSD,
     token0Price |-> token0Price, token1Price |-> token1Price]

Days == {DayData(t, v, p, q) : t \in {0, 100}, v \in {0, 10}, p \in {1, 2}, q \in {0, 1, 2}}
DayLists == SeqsUpTo(Days, MaxDays)

RECURSIVE SumF(_)
SumF(s) == IF s = <<>> THEN Whole(0) ELSE Add(s[1], SumF(Tail(s)))

CalculateAvgUtilization(pool_day_data) ==
    LET counted == SelectSeq(pool_day_data, LAMBDA d : d.tvlUSD > 0)
        utilization_rates == [i \in 1..Len(counted) |-> Frac(counted[i].volumeUSD, counted[i].tvlUSD)]
    IN  IF utilization_rates = <<>> THEN Whole(0)
        ELSE DivBy(SumF(utilization_rates), Len(utilization_rates))

\* np.diff(prices) / prices[:-1]
Returns(prices) ==
    [i \in 1..(Len(prices) - 1) |-> Frac(prices[i + 1] - prices[i], prices[i])]

\* np.corrcoef(x, y)[0, 1]; NaN (a variance of 0) is returned as 0.0.
Correlation(x, y) ==
    LET n == Len(x)
        sx == SumF(x)
        sy == SumF(y)
        cov == Sub(Mul(Whole(n), SumF([i \in 1..n |-> Mul(x[i], y[i])])), Mul(sx, sy))
        vx == Sub(Mul(Whole(n), SumF([i \in 1..n |-> Mul(x[i], x[i])])), Mul(sx, sx))
        vy == Sub(Mul(Whole(n), SumF([i \in 1..n |-> Mul(y[i], y[i])])), Mul(sy, sy))
        sd == SqrtOf(Mul(vx, vy))
    IN  IF vx[1] = 0 \/ vy[1] = 0 THEN Whole(0)
        ELSE Frac(cov[1] * sd[2], cov[2] * sd[1])

CalculatePriceCorrelation(pool_day_data) ==
    LET priced == SelectSeq(pool_day_data, LAMBDA d : d.token0Price > 0 /\ d.token1Price > 0)
        token0_prices == [i \in 1..Len(priced) |-> priced[i].token0Price]
        token1_prices == [i \in 1..Len(priced) |-> priced[i].token1Price]
    IN  IF Len(token0_prices) < 2 THEN Whole(0)
        ELSE IF Len(Returns(token0_prices)) < 2 THEN Whole(0)
        ELSE Correlation(Returns(token0_prices), Returns(token1_prices))

DetermineIlRisk(correlation) ==
    LET thresholds == config.risk_thresholds.market_risk
    IN  IF Lt(correlation, thresholds.price_correlation_high_il_risk) THEN "VERY_HIGH"
        ELSE IF Lt(correlation, thresholds.price_correlation_low_il_risk) THEN "HIGH"
        ELSE IF Lt(correlation, MediumIlCorrelation) THEN "MEDIUM"
        ELSE "LOW"

MarketRiskFlags(utilization, correlation) ==
    LET thresholds == config.risk_thresholds.market_risk
        flags ==
            (IF Lt(utilization, thresholds.utilization_rate_critical_low)
                THEN <<"CRITICAL_LOW_UTILIZATION">>
             ELSE IF Lt(utilization, thresholds.utilization_rate_low)
                THEN <<"LOW_UTILIZATION">>
             ELSE <<>>)
            \o (IF Lt(correlation, thresholds.price_correlation_high_il_risk)
                    THEN <<"VERY_HIGH_IL_RISK">>
                ELSE IF Lt(correlation, thresholds.price_correlation_low_il_risk)
                    THEN <<"HIGH_IL_RISK">>
                ELSE <<>>)
    IN  FlagsOrLowRisk(flags)

MarketRiskScore(utilization, correlation) ==
    LET raw == Sub(Whole(100), Mul(Frac(utilization[1] * TargetUtilization[2],
                                        utilization[2] * TargetUtilization[1]), Whole(100)))
        utilization_score == MinOf(IF Gt(Whole(0), raw) THEN Whole(0) ELSE raw, Whole(100))
        correlation_score == Mul(DivBy(Sub(Whole(1), correlation), 2), Whole(100))
        composite == Add(Mul(utilization_score, Frac(3, 10)), Mul(correlation_score, Frac(7, 10)))
    IN  IntRound(composite)

\* analyze, given what _fetch_pool_day_data returned.
MarketAnalyze(pool_day_data) ==
    IF pool_day_data = <<>>
    THEN [error |-> "No historical data found for this pool",
          avg_utilization_rate |-> None,
          price_correlation |-> None,
          il_risk_level |-> None,
          risk_flags |-> <<"NO_DATA">>]
    ELSE LET avg_utilization == CalculateAvgUtilization(pool_day_data)
             price_correlation == CalculatePriceCorrelation(pool_day_data)
         IN  [avg_utilization_rate |-> Round(avg_utilization, 6),
              price_correlation |-> Round(price_correlation, 4),
              il_risk_level |-> DetermineIlRisk(price_correlation),
              data_points |-> Len(pool_day_data),
              risk_flags |-> MarketRiskFlags(avg_utilization, price_correlation),
              risk_score |-> MarketRiskScore(avg_utilization, price_correlation)]

AnalyzeMarket ==
    /\ analysis = NoAnalysis
    /\ analysis_raised = NoRaise
    /\ \E pool_day_data \in DayLists :
        /\ analysis' = Analyzed("market_risk", Len(pool_day_data), MarketAnalyze(pool_day_data))
        /\ analysis_locals' = Fetched(pool_day_data)
    /\ UNCHANGED <<config, analysis_raised, notAnalyze>>

\* --------------------------------------------------- BehavioralRiskAnalyzer
PatternsReported == 10

Addresses == {"A", "B"}
Blocks == {1, 2}

\* A swap as the indexer returns it.
Swap(id, block, sender, recipient, origin) ==
    [id |-> id, sender |-> sender, recipient |-> recipient, origin |-> origin,
     transaction |-> [id |-> id, blockNumber |-> block]]

\* The lists _fetch_recent_swaps returns: newest first, so ids descending.
SwapLists ==
    {[i \in 1..Len(s) |-> Swap(Len(s) + 1 - i, s[i][1], s[i][2], s[i][3], s[i][4])]
        : s \in SeqsUpTo(Blocks \X Addresses \X Addresses \X Addresses, MaxSwaps)}

\* The keys of a dict filled in the order of s: first occurrences, in order.
RECURSIVE Distinct(_)
Distinct(s) ==
    IF s = <<>> THEN <<>>
    ELSE <<s[1]>> \o SelectSeq(Distinct(Tail(s)), LAMBDA x : x # s[1])

RECURSIVE Flatten(_)
Flatten(ss) == IF ss = <<>> THEN <<>> ELSE ss[1] \o Flatten(Tail(ss))

\* swaps_by_block: its keys in order, and the list under a key.
BlockKeys(swaps) == Distinct([i \in 1..Len(swaps) |-> swaps[i].transaction.blockNumber])
BlockSwaps(swaps, block) == SelectSeq(swaps, LAMBDA s : s.transaction.blockNumber = block)

\* The circular patterns of one block.
BlockWashPatterns(block, block_swaps) ==
    IF Len(block_swaps) < 2 THEN <<>>
    ELSE LET senders == Distinct([i \in 1..Len(block_swaps) |-> block_swaps[i].sender])
             Flows(a) == LET from == SelectSeq(block_swaps, LAMBDA s : s.sender = a)
                         IN  [i \in 1..Len(from) |-> from[i].recipient]
             Of(sender) ==
                LET recipients == Flows(sender)
                    hits == SelectSeq(recipients, LAMBDA r : sender \in Range(Flows(r)))
                IN  [i \in 1..Len(hits) |->
                        [block |-> block, addresses |-> <<sender, hits[i]>>, pattern |-> "circular"]]
         IN  Flatten([i \in 1..Len(senders) |-> Of(senders[i])])

\* _detect_wash_trading: <<wash_trading_pct, suspicious_patterns>>
DetectWashTrading(swaps) ==
    LET keys == BlockKeys(swaps)
        suspicious_patterns ==
            Flatten([i \in 1..Len(keys) |-> BlockWashPatterns(keys[i], BlockSwaps(swaps, keys[i]))])
        suspicious_swap_count == 2 * Len(suspicious_patterns)
    IN  IF swaps = <<>> THEN <<Whole(0), <<>> >>
        ELSE <<Frac(suspicious_swap_count * 100, Len(swaps)), suspicious_patterns>>

RECURSIVE InsertById(_, _)
InsertById(x, s) ==
    IF s = <<>> THEN <<x>>
    ELSE IF x.id <= s[1].id THEN <<x>> \o s
    ELSE <<s[1]>> \o InsertById(x, Tail(s))

RECURSIVE SortedById(_)
SortedById(s) == IF s = <<>> THEN <<>> ELSE InsertById(s[1], SortedById(Tail(s)))

BlockSandwichVictims_AnyMiddle(block_swaps) ==
    IF Len(block_swaps) < 3 THEN {}
    ELSE LET sorted_swaps == SortedById(block_swaps)
         IN  {sorted_swaps[i + 1].transaction.id :
                i \in {j \in 1..(Len(sorted_swaps) - 2) :
                        sorted_swaps[j].origin = sorted_swaps[j + 2].origin}}

\* The victims found in one block.
BlockSandwichVictims(block_swaps) ==
    IF Len(block_swaps) < 3 THEN {}
    ELSE LET sorted_swaps == SortedById(block_swaps)
         IN  {sorted_swaps[i + 1].transaction.id :
                i \in {j \in 1..(Len(sorted_swaps) - 2) :
                        /\ sorted_swaps[j].origin = sorted_swaps[j + 2].origin
                        /\ sorted_swaps[j + 1].origin # sorted_swaps[j].origin}}

\* _detect_sandwich_attacks: <<mev_exposure_pct, sandwich_victims>>
DetectSandwichAttacks(swaps) ==
    LET keys == BlockKeys(swaps)
        sandwich_victims ==
            UNION {BlockSandwichVictims(BlockSwaps(swaps, keys[i])) : i \in 1..Len(keys)}
    IN  IF swaps = <<>> THEN <<Whole(0), {}>>
        ELSE <<Frac(Cardinality(sandwich_victims) * 100, Len(swaps)), sandwich_victims>>

BehavioralRiskFlags(wash_trading_pct, mev_exposure_pct) ==
    LET thresholds == config.risk_thresholds.behavioral
        flags ==
            (IF Gt(wash_trading_pct, thresholds.wash_trading_critical_pct)
                THEN <<"CRITICAL_WASH_TRADING">>
             ELSE IF Gt(wash_trading_pct, thresholds.wash_trading_high_pct)
                THEN <<"HIGH_WASH_TRADING">>
             ELSE <<>>)
            \o (IF Gt(mev_exposure_pct, thresholds.mev_exposure_critical_pct)
                    THEN <<"CRITICAL_MEV_EXPOSURE">>
                ELSE IF Gt(mev_exposure_pct, thresholds.mev_exposure_high_pct)
                    THEN <<"HIGH_MEV_EXPOSURE">>
                ELSE <<>>)
    IN  FlagsOrLowRisk(flags)

BehavioralRiskScore(wash_trading_pct, mev_exposure_pct) ==
    LET composite == DivBy(Add(wash_trading_pct, mev_exposure_pct), 2)
    IN  IntRound(MinOf(composite, Whole(100)))

\* analyze, given what _fetch_recent_swaps returned.
BehavioralAnalyze(swaps) ==
    IF swaps = <<>>
    THEN [error |-> "No swap data found for this pool",
          wash_trading_pct |-> None,
          mev_exposure_pct |-> None,
          suspicious_patterns |-> <<>>,
          risk_flags |-> <<"NO_DATA">>]
    ELSE LET wash == DetectWashTrading(swaps)
             mev == DetectSandwichAttacks(swaps)
         IN  [wash_trading_pct |-> Round(wash[1], 2),
              mev_exposure_pct |-> Round(mev[1], 2),
              total_swaps_analyzed |-> Len(swaps),
              wash_trading_patterns |-> Len(wash[2]),
              sandwich_victims |-> Cardinality(mev[2]),
              suspicious_patterns |-> SubSeq(wash[2], 1, Min({PatternsReported, Len(wash[2])})),
              risk_flags |-> BehavioralRiskFlags(wash[1], mev[1]),
              risk_score |-> BehavioralRiskScore(wash[1], mev[1])]

AnalyzeBehavioral ==
    /\ analysis = NoAnalysis
    /\ analysis_raised = NoRaise
    /\ \E swaps \in SwapLists :
        /\ analysis' = Analyzed("behavioral", Len(swaps), BehavioralAnalyze(swaps))
        /\ analysis_locals' =
                IF swaps = <<>> THEN Fetched(swaps)
                ELSE [fetched |-> swaps,
                      wash |-> DetectWashTrading(swaps),
                      mev |-> DetectSandwichAttacks(swaps)]
    /\ UNCHANGED <<config, analysis_raised, notAnalyze>>

\* --- analyze when the fetch layer raises.
Analyzers == {"concentration", "liquidity_depth", "market_risk", "behavioral"}

\* The terminal errors of the fetch layer: retries exhausted (utils.py:117),
\* and the GraphQL error that is raised through (utils.py:110).
FetchErrors == {"Query failed after retries", "GraphQL errors"}

\* Whether analyze has a handler around its fetch: the fetch is the first
\* statement of each analyze, outside any try.
AnalyzeCatches(analyzer, exc) == FALSE

\* What analyze returns where it does catch.
FetchErrorResult(exc) == [error |-> exc, risk_flags |-> <<"NO_DATA">>]

\* analyze, _fetch_positions / _fetch_ticks / _fetch_pool_day_data /
\* _fetch_recent_swaps raising exc.
AnalyzeFetchRaises ==
    /\ analysis = NoAnalysis
    /\ analysis_raised = NoRaise
    /\ \E analyzer \in Analyzers, exc \in FetchErrors :
        IF AnalyzeCatches(analyzer, exc)
        THEN /\ analysis' = Analyzed(analyzer, 0, FetchErrorResult(exc))
             /\ analysis_raised' = [analyzer |-> analyzer, fetch_error |-> exc, raised |-> ""]
        ELSE /\ analysis_raised' = [analyzer |-> analyzer, fetch_error |-> exc, raised |-> exc]
             /\ UNCHANGED analysis
    /\ UNCHANGED <<config, analysis_locals, notAnalyze>>

\* ================================================================ RiskScorer
\* --- the configuration (config.json, "scoring").
Level(level, min, max) == [level |-> level, min |-> min, max |-> max]

\* Weights: equal, unequal and summing to 1, and not summing to 1.
WeightSets ==
    {[a \in Analyzers |-> Frac(1, 4)],
     [a \in Analyzers |-> IF a \in {"concentration", "liquidity_depth"} THEN Frac(3, 10) ELSE Frac(1, 5)],
     [a \in Analyzers |-> Frac(1, 2)]}

\* Bands: covering 0..100, and leaving 26..29 out.
LevelSets ==
    {<<Level("low", 0, 25), Level("medium", m, 50), Level("high", 51, 75), Level("critical", 76, 100)>>
        : m \in {26, 30}}

\* --- the results passed to score: an empty dict, a no-data result, and
\* results with flags and a score.
Scores == {(100 * i) \div NScores : i \in 0..NScores}
EmptyResult == <<>>
NoDataResult == [error |-> "No data", risk_flags |-> <<"NO_DATA">>]
ScoredResult(flags, score) == [risk_flags |-> flags, risk_score |-> score]
Results ==
    {EmptyResult, NoDataResult}
        \cup {ScoredResult(f, n) : f \in {<<"LOW_RISK">>, <<"HIGH_GINI">>}, n \in Scores}

\* result.get("risk_score", 0) and result.get("risk_flags", [])
GetRiskScore(result) == IF "risk_score" \in DOMAIN result THEN result.risk_score ELSE 0
GetRiskFlags(result) == IF "risk_flags" \in DOMAIN result THEN result.risk_flags ELSE <<>>

\* str.upper() of a level name.
Upper(level) ==
    CASE level = "low" -> "LOW"
      [] level = "medium" -> "MEDIUM"
      [] level = "high" -> "HIGH"
      [] level = "critical" -> "CRITICAL"

\* The same with strict comparisons against a band's edges.
DetermineRiskLevel_Exclusive(score) ==
    LET holding == SelectSeq(risk_levels, LAMBDA b : b.min < score /\ score < b.max)
    IN  IF holding # <<>> THEN Upper(holding[1].level) ELSE "UNKNOWN"

\* _determine_risk_level: the first band, in dict order, that holds the score.
DetermineRiskLevel(score) ==
    LET holding == SelectSeq(risk_levels, LAMBDA b : b.min <= score /\ score <= b.max)
    IN  IF holding # <<>> THEN Upper(holding[1].level) ELSE "UNKNOWN"

\* A composite that reads the first argument only.
CompositeScore_ConcentrationOnly(c, l, m, b) == c

\* The weighted sum of score, rounded.
CompositeScore(c, l, m, b) ==
    IntRound(Add(Add(Mul(Whole(c), weights["concentration"]),
                     Mul(Whole(l), weights["liquidity_depth"])),
                 Add(Mul(Whole(m), weights["market_risk"]),
                     Mul(Whole(b), weights["behavioral"]))))

\* The flags without the filter on LOW_RISK.
FinalFlags_KeepSentinel(all_flags) == IF all_flags # <<>> THEN all_flags ELSE <<"LOW_RISK">>

\* critical_flags if critical_flags else ["LOW_RISK"]
FinalFlags(all_flags) ==
    LET critical_flags == SelectSeq(all_flags, LAMBDA f : f # "LOW_RISK")
    IN  IF critical_flags # <<>> THEN critical_flags ELSE <<"LOW_RISK">>

Score(concentration_result, liquidity_result, market_result, behavioral_result) ==
    LET concentration_score == GetRiskScore(concentration_result)
        liquidity_score == GetRiskScore(liquidity_result)
        market_score == GetRiskScore(market_result)
        behavioral_score == GetRiskScore(behavioral_result)
        composite_score == CompositeScore(concentration_score, liquidity_score,
                                          market_score, behavioral_score)
        all_flags == GetRiskFlags(concentration_result) \o GetRiskFlags(liquidity_result)
                        \o GetRiskFlags(market_result) \o GetRiskFlags(behavioral_result)
    IN  [composite_score |-> composite_score,
         risk_level |-> DetermineRiskLevel(composite_score),
         risk_flags |-> FinalFlags(all_flags),
         component_scores |-> [concentration |-> concentration_score,
                               liquidity_depth |-> liquidity_score,
                               market_risk |-> market_score,
                               behavioral |-> behavioral_score],
         raw_metrics |-> [concentration |-> concentration_result,
                          liquidity_depth |-> liquidity_result,
                          market_risk |-> market_result,
                          behavioral |-> behavioral_result]]

NotScored == [composite_score |-> -1]

ScoreCall ==
    /\ scored = NotScored
    /\ \E c \in Results, l \in Results, m \in Results, b \in Results :
        scored' = Score(c, l, m, b)
    /\ UNCHANGED <<weights, risk_levels, notScore>>

\* ========================================================== PlanExecuteGraph
\* --- the tools: the five the MCP server registers, and the names the
\* planner may propose (one of them registered nowhere).
CompositeTool == "calculate_composite_risk_score"
AnalyzerTools ==
    <<"analyze_concentration_risk", "analyze_liquidity_depth",
      "analyze_market_risk", "analyze_behavioral_risk">>
AvailableTools == Range(AnalyzerTools) \cup {CompositeTool}
ProposedNames == AvailableTools \cup {"get_pool_price"}

\* mcp_tools: all five tools, all but one, or none (server unreachable).
Registrations ==
    {AvailableTools, AvailableTools \ {CompositeTool},
     AvailableTools \ {"analyze_liquidity_depth"}, {}}

\* plan_result.tools_to_call: every selection of the names in one order,
\* every list of up to MaxProposal names (repetitions, other orders), and
\* lists with the composite first or a tool named twice.
ProposalOrder == AnalyzerTools \o <<CompositeTool, "get_pool_price">>
Proposals ==
    {SelectSeq(ProposalOrder, LAMBDA t : t \in S) : S \in SUBSET ProposedNames}
        \cup SeqsUpTo(ProposedNames, MaxProposal)
        \cup {<<CompositeTool>> \o AnalyzerTools,
              <<"analyze_market_risk">> \o AnalyzerTools \o <<CompositeTool, CompositeTool>>}

\* What planner_llm.invoke gives: an AnalysisPlan, or an exception.
PlannerOutcomes ==
    {[raised |-> "", reasoning |-> "reasoning", tools_to_call |-> p, needs_comprehensive |-> c]
        : p \in Proposals, c \in BOOLEAN}
        \cup {[raised |-> "planner unavailable", reasoning |-> "", tools_to_call |-> <<>>,
               needs_comprehensive |-> FALSE]}
NoPlanResult ==
    [raised |-> "", reasoning |-> "", tools_to_call |-> <<>>, needs_comprehensive |-> FALSE]

\* request.pool_address: an address, or none.
PoolAddresses == {"0xpool", ""}

\* --- the state dict: state.get(key, default), and the merge of a node's
\* return value into the state.
Get(state, key, default) == IF key \in DOMAIN state THEN state[key] ELSE default
Update(state, returned) ==
    [k \in DOMAIN state \cup DOMAIN returned |->
        IF k \in DOMAIN returned THEN returned[k] ELSE state[k]]

\* A plan node that filters the comprehensive list too.
PlanNodeReturn_FilterComprehensive(outcome) ==
    IF outcome.raised = ""
    THEN [plan |-> outcome.reasoning,
          tools_to_call |-> SelectSeq(IF outcome.needs_comprehensive
                                      THEN AnalyzerTools ELSE outcome.tools_to_call,
                                      LAMBDA t : t \in registered),
          exit_flag |-> FALSE]
    ELSE [plan |-> "Planning failed: " \o outcome.raised,
          tools_to_call |-> <<>>,
          exit_flag |-> TRUE]

\* A plan node that passes the proposed list on as it is.
PlanNodeReturn_Unfiltered(outcome) ==
    IF outcome.raised = ""
    THEN [plan |-> outcome.reasoning,
          tools_to_call |-> IF outcome.needs_comprehensive
                            THEN AnalyzerTools
                            ELSE outcome.tools_to_call,
          exit_flag |-> FALSE]
    ELSE [plan |-> "Planning failed: " \o outcome.raised,
          tools_to_call |-> <<>>,
          exit_flag |-> TRUE]

\* _plan_node: the value returned.
PlanNodeReturn(outcome) ==
    IF outcome.raised = ""
    THEN [plan |-> outcome.reasoning,
          tools_to_call |-> IF outcome.needs_comprehensive
                            THEN AnalyzerTools
                            ELSE SelectSeq(outcome.tools_to_call, LAMBDA t : t \in registered),
          exit_flag |-> FALSE]
    ELSE [plan |-> "Planning failed: " \o outcome.raised,
          tools_to_call |-> <<>>,
          exit_flag |-> TRUE]

\* A routing that ends the run on a planning error.
RouteAfterPlan_ErrorEnds(state) ==
    IF Get(state, "exit_flag", FALSE) THEN "END"
    ELSE IF Get(state, "tools_to_call", <<>>) = <<>> THEN "no_tools_response"
    ELSE "execute_tools"

\* _route_after_plan, through the edge table of _build_graph.
RouteAfterPlan(state) ==
    IF Get(state, "exit_flag", FALSE) THEN "finalize"
    ELSE IF Get(state, "tools_to_call", <<>>) = <<>> THEN "no_tools_response"
    ELSE "execute_tools"

PlanNode ==
    /\ node = "plan"
    /\ \E outcome \in PlannerOutcomes :
        /\ plan_result' = outcome
        /\ graph_state' = Update(graph_state, PlanNodeReturn(outcome))
        /\ node' = RouteAfterPlan(Update(graph_state, PlanNodeReturn(outcome)))
    /\ visited' = Append(visited, "plan")
    /\ calls' = Append(calls, [kind |-> "planner"])
    /\ UNCHANGED <<registered, step, tasks, results, notPlan>>

\* --- _execute_tools_node.
\* What an analyzer tool returns: a result dict of its own.
ToolResult(tool) ==
    [risk_score |-> CHOOSE i \in 1..4 : AnalyzerTools[i] = tool,
     risk_flags |-> <<"LOW_RISK">>,
     pool |-> "0xpool"]

\* The tools of the first wave: the selected ones but the composite.
Wave(tools_to_call) == SelectSeq(tools_to_call, LAMBDA t : t # CompositeTool)

\* execute_single_tool: the entry returned (raised: the exception of ainvoke).
ExecuteSingleTool(tool_name, raised) ==
    IF tool_name \notin registered
    THEN [tool |-> tool_name, error |-> "Tool not found"]
    ELSE IF raised # ""
    THEN [tool |-> tool_name, error |-> raised]
    ELSE [tool |-> tool_name, result |-> ToolResult(tool_name)]

\* The tools of the wave whose ainvoke is called: the registered ones, each
\* coroutine running up to its await in the order of the list.
Invoked(tools_to_call) == SelectSeq(Wave(tools_to_call), LAMBDA t : t \in registered)

\* An entry of the node that launches the wave without looking at the pool
\* address.
ExecuteToolsNode_NoAddressCheck ==
    /\ node = "execute_tools"
    /\ step = "enter"
    /\ visited' = Append(visited, "execute_tools")
    /\ tasks' = [i \in 1..Len(Wave(graph_state.tools_to_call)) |->
                    [tool |-> Wave(graph_state.tools_to_call)[i],
                     status |-> "pending", entry |-> <<>>]]
    /\ calls' = calls \o
            [i \in 1..Len(Invoked(graph_state.tools_to_call)) |->
                [kind |-> "tool", tool |-> Invoked(graph_state.tools_to_call)[i]]]
    /\ step' = "gather"
    /\ UNCHANGED <<graph_state, node>>
    /\ UNCHANGED <<registered, results, plan_result, notPlan>>

\* Entering the node: without a pool address it returns at once; otherwise
\* the coroutines of the wave are created and awaited.
ExecuteToolsNode ==
    /\ node = "execute_tools"
    /\ step = "enter"
    /\ visited' = Append(visited, "execute_tools")
    /\ IF Get(graph_state, "pool_address", "") = ""
       THEN /\ graph_state' = Update(graph_state,
                    [tool_results |-> <<[error |-> "No pool address provided"]>>,
                     exit_flag |-> TRUE])
            /\ node' = "synthesize"
            /\ UNCHANGED <<step, tasks, calls>>
       ELSE /\ tasks' = [i \in 1..Len(Wave(graph_state.tools_to_call)) |->
                            [tool |-> Wave(graph_state.tools_to_call)[i],
                             status |-> "pending", entry |-> <<>>]]
            /\ calls' = calls \o
                    [i \in 1..Len(Invoked(graph_state.tools_to_call)) |->
                        [kind |-> "tool", tool |-> Invoked(graph_state.tools_to_call)[i]]]
            /\ step' = "gather"
            /\ UNCHANGED <<graph_state, node>>
    /\ UNCHANGED <<registered, results, plan_result, notPlan>>

\* One coroutine of the wave runs to its end.
ToolSettles(i) ==
    /\ node = "execute_tools"
    /\ step = "gather"
    /\ i \in DOMAIN tasks
    /\ tasks[i].status = "pending"
    /\ \E raised \in {"", "tool failed"} :
        /\ raised # "" => tasks[i].tool \in registered
        /\ tasks' = [tasks EXCEPT ![i] =
                        [tool |-> tasks[i].tool, status |-> "settled",
                         entry |-> ExecuteSingleTool(tasks[i].tool, raised)]]
    /\ UNCHANGED <<registered, graph_state, node, step, results, plan_result,
                   visited, calls, notPlan>>

\* risk_results: tool name -> result, of the entries that hold a result.
RiskResults(entries) ==
    [t \in {entries[i].tool : i \in {j \in DOMAIN entries : "result" \in DOMAIN entries[j]}} |->
        LET last == CHOOSE i \in DOMAIN entries :
                        /\ entries[i].tool = t /\ "result" \in DOMAIN entries[i]
                        /\ \A j \in DOMAIN entries :
                            (entries[j].tool = t /\ "result" \in DOMAIN entries[j]) => j <= i
        IN  entries[last].result]

\* The number of results the composite asks for.
EnoughResults_Three(entries) == Cardinality(DOMAIN RiskResults(entries)) >= 3

EnoughResults(entries) == Cardinality(DOMAIN RiskResults(entries)) >= 4

\* The conditions under which the composite tool is invoked.
CompositeDue(entries) ==
    /\ CompositeTool \in Range(graph_state.tools_to_call)
    /\ EnoughResults(entries)
    /\ CompositeTool \in registered

\* The arguments of the composite call.
CompositeInputs(entries) ==
    <<Get(RiskResults(entries), "analyze_concentration_risk", <<>>),
      Get(RiskResults(entries), "analyze_liquidity_depth", <<>>),
      Get(RiskResults(entries), "analyze_market_risk", <<>>),
      Get(RiskResults(entries), "analyze_behavioral_risk", <<>>)>>

\* results: what the coroutines returned, in the order of the list.
GatheredEntries == [i \in DOMAIN tasks |-> tasks[i].entry]

\* asyncio.gather returns once every coroutine has; the node returns here
\* unless the composite is to be called.
GatherReturns ==
    /\ node = "execute_tools"
    /\ step = "gather"
    /\ \A i \in DOMAIN tasks : tasks[i].status = "settled"
    /\ LET entries == GatheredEntries
       IN  IF CompositeDue(entries)
           THEN /\ results' = entries
                /\ step' = "composite"
                /\ UNCHANGED <<graph_state, node>>
           ELSE /\ graph_state' = Update(graph_state,
                        [tool_results |-> entries, exit_flag |-> FALSE])
                /\ node' = "synthesize"
                /\ step' = "enter"
                /\ UNCHANGED results
    /\ UNCHANGED <<registered, tasks, plan_result, visited, calls, notPlan>>

\* What the composite tool returns: the scorer's dict, here for a scorer with
\* equal weights and one band.
CompositeResult(inputs) ==
    [composite_score |->
        RoundHalfEven(GetRiskScore(inputs[1]) + GetRiskScore(inputs[2])
                        + GetRiskScore(inputs[3]) + GetRiskScore(inputs[4]), 4),
     risk_level |-> "LOW",
     raw_metrics |-> inputs]

\* The composite call and the return of the node.
CompositeInvoke ==
    /\ node = "execute_tools"
    /\ step = "composite"
    /\ LET inputs == CompositeInputs(results)
       IN  /\ calls' = Append(calls,
                    [kind |-> "composite", inputs |-> inputs,
                     pending |-> Cardinality({i \in DOMAIN tasks : tasks[i].status = "pending"})])
           /\ \E raised \in {"", "composite failed"} :
                graph_state' = Update(graph_state,
                    [tool_results |->
                        IF raised = ""
                        THEN Append(results,
                                [tool |-> CompositeTool,
                                 result |-> CompositeResult(inputs)])
                        ELSE results,
                     exit_flag |-> FALSE])
    /\ node' = "synthesize"
    /\ step' = "enter"
    /\ UNCHANGED <<registered, tasks, results, plan_result, visited, notPlan>>

\* --- the other nodes.
NoToolsResponseNode ==
    /\ node = "no_tools_response"
    /\ graph_state' = Update(graph_state,
            [synthesized_answer |-> "no specific risk analysis tools are needed",
             exit_flag |-> FALSE])
    /\ node' = "finalize"
    /\ visited' = Append(visited, "no_tools_response")
    /\ UNCHANGED <<registered, step, tasks, results, plan_result, calls, notPlan>>

\* ', '.join(risk_flags)
RECURSIVE JoinFlags(_)
JoinFlags(risk_flags) ==
    IF risk_flags = <<>> THEN ""
    ELSE IF Len(risk_flags) = 1 THEN risk_flags[1]
    ELSE risk_flags[1] \o ", " \o JoinFlags(Tail(risk_flags))

\* The text _synthesize_node writes for one entry of tool_results; str() of
\* a number or a dict is the text of the value.
EntryText(tr) ==
    LET tool_name == Get(tr, "tool", "unknown")
    IN  IF "error" \in DOMAIN tr
        THEN "\n" \o tool_name \o ": ERROR - " \o tr.error
        ELSE LET result == Get(tr, "result", <<>>)
                 risk_score == IF "risk_score" \in DOMAIN result
                               THEN ToString(result.risk_score) ELSE "N/A"
                 risk_flags == Get(result, "risk_flags", <<>>)
             IN  "\n" \o tool_name \o ":\n  - Risk Score: " \o risk_score \o "/100"
                    \o "\n  - Flags: "
                    \o (IF risk_flags # <<>> THEN JoinFlags(risk_flags) ELSE "None")
                    \o "\n  - Details: " \o ToString(result)

\* results_text: the texts of the entries, in order.
RECURSIVE ResultsText(_)
ResultsText(tool_results) ==
    IF tool_results = <<>> THEN ""
    ELSE EntryText(Head(tool_results)) \o ResultsText(Tail(tool_results))

\* A synthesis that reports the failure without the results.
SynthesisFallback_NoResults(raised, results_text) ==
    "Analysis completed but synthesis failed: " \o raised

\* The answer of the except branch.
SynthesisFallback(raised, results_text) ==
    "Analysis completed but synthesis failed: " \o raised
        \o "\n\nRaw results: " \o results_text

SynthesizeNode ==
    /\ node = "synthesize"
    /\ \E raised \in {"", "llm unavailable"} :
        graph_state' = Update(graph_state,
            [synthesized_answer |->
                IF raised = "" THEN "synthesized answer"
                ELSE SynthesisFallback(raised,
                        ResultsText(Get(graph_state, "tool_results", <<>>))),
             exit_flag |-> FALSE])
    /\ node' = "finalize"
    /\ visited' = Append(visited, "synthesize")
    /\ calls' = Append(calls, [kind |-> "synthesis"])
    /\ UNCHANGED <<registered, step, tasks, results, plan_result, notPlan>>

\* Metadata whose tool_count counts the entries of tool_results.
FinalizeMetadata_CountsResults(state) ==
    LET tool_results == Get(state, "tool_results", <<>>)
        composite == SelectSeq(tool_results,
                        LAMBDA tr : /\ "tool" \in DOMAIN tr
                                    /\ tr.tool = CompositeTool
                                    /\ "result" \in DOMAIN tr)
        metadata == [plan |-> Get(state, "plan", ""),
                     tools_called |-> Get(state, "tools_to_call", <<>>),
                     tool_count |-> Len(tool_results),
                     mcp_protocol |-> TRUE]
    IN  IF composite # <<>> /\ "composite_score" \in DOMAIN composite[1].result
        THEN Update(metadata, [risk_score |-> composite[1].result.composite_score,
                               risk_level |-> composite[1].result.risk_level])
        ELSE metadata

\* _finalize_node: metadata, with the composite score when an entry holds one.
FinalizeMetadata(state) ==
    LET tool_results == Get(state, "tool_results", <<>>)
        composite == SelectSeq(tool_results,
                        LAMBDA tr : /\ "tool" \in DOMAIN tr
                                    /\ tr.tool = CompositeTool
                                    /\ "result" \in DOMAIN tr)
        metadata == [plan |-> Get(state, "plan", ""),
                     tools_called |-> Get(state, "tools_to_call", <<>>),
                     tool_count |-> Len(Get(state, "tools_to_call", <<>>)),
                     mcp_protocol |-> TRUE]
    IN  IF composite # <<>> /\ "composite_score" \in DOMAIN composite[1].result
        THEN Update(metadata, [risk_score |-> composite[1].result.composite_score,
                               risk_level |-> composite[1].result.risk_level])
        ELSE metadata

\* An answer without the default text.
FinalizeAnswer_NoDefault(state) == Get(state, "synthesized_answer", "")

\* state.get("synthesized_answer", "No answer generated")
FinalizeAnswer(state) == Get(state, "synthesized_answer", "No answer generated")

FinalizeNode ==
    /\ node = "finalize"
    /\ graph_state' = Update(graph_state,
            [answer |-> FinalizeAnswer(graph_state),
             metadata |-> FinalizeMetadata(graph_state)])
    /\ node' = "END"
    /\ visited' = Append(visited, "finalize")
    /\ UNCHANGED <<registered, step, tasks, results, plan_result, calls, notPlan>>

\* ========================================================= OrchestratorGraph
\* The agents of remote_agent_addresses, under the keys the invoke nodes look up.
RemoteAgents == {"pool_risk", "token_intelligence"}

\* What the routing oracle call gives: a JSON object with a route, one without
\* a route, or an exception (the call, or the parsing of its answer).
NoRoute == "no route"
Routes == {"pool_risk", "token_intel", "both", "all"}
RoutingOutcomes ==
    {[raised |-> "", route |-> r] : r \in Routes \cup {NoRoute}}
        \cup {[raised |-> "oracle failed", route |-> NoRoute]}

\* What connection.send_message and the extraction of its response give: an
\* exception, or a result with a risk score.
SubScores == {0, 40, 75}
RemoteOutcomes ==
    {[raised |-> e, risk_score |-> 0] : e \in {"timed out", "connection refused"}}
        \cup {[raised |-> "", risk_score |-> x] : x \in SubScores}

Queries == {"Analyze this pool"}

\* router: invoke_orchestrator gives the one graph a new request.
InvokeOrchestrator ==
    /\ orch_node = "END"
    /\ requests_handled < MaxRequests
    /\ \E query \in Queries, pool_address \in PoolAddresses :
        overall_state' = [query |-> query, pool_address |-> pool_address]
    /\ orch_node' = "discover_agents"
    /\ orch_visited' = <<>>
    /\ sent' = <<>>
    /\ requests_handled' = requests_handled + 1
    /\ UNCHANGED <<remote_agent_connections, resolved, notOrch>>

\* discover_agents: every card fetch succeeds or fails on its own; the
\* successful ones are stored in self.remote_agent_connections.
DiscoverAgents ==
    /\ orch_node = "discover_agents"
    /\ \E successes \in SUBSET RemoteAgents :
        /\ remote_agent_connections' = remote_agent_connections \cup successes
        /\ resolved' = successes
    /\ overall_state' = Update(overall_state, [agents_info |-> "agents info"])
    /\ orch_node' = "analyze_query"
    /\ orch_visited' = Append(orch_visited, "discover_agents")
    /\ UNCHANGED <<sent, requests_handled, notOrch>>

\* analyze_query: what it returns for an outcome of the routing oracle call.
AnalyzeQueryReturn(outcome) ==
    IF outcome.raised = ""
    THEN [routing_decision |-> IF outcome.route = NoRoute THEN "both" ELSE outcome.route,
          routing_reasoning |-> "reasoning"]
    ELSE [routing_decision |-> "both",
          routing_reasoning |-> "Error in routing, invoking all agents"]

\* route_to_agents, with the node each of its answers is mapped to.
RouteToAgents(state) ==
    LET decision == Get(state, "routing_decision", "both")
    IN  IF decision = "pool_risk" THEN "invoke_pool_risk"
        ELSE IF decision = "token_intel" THEN "invoke_token_intel"
        ELSE "invoke_pool_risk"

AnalyzeQuery ==
    /\ orch_node = "analyze_query"
    /\ \E outcome \in RoutingOutcomes :
        /\ overall_state' = Update(overall_state, AnalyzeQueryReturn(outcome))
        /\ orch_node' = RouteToAgents(overall_state')
    /\ orch_visited' = Append(orch_visited, "analyze_query")
    /\ UNCHANGED <<remote_agent_connections, resolved, sent, requests_handled, notOrch>>

\* The three results an invoke node stores.
AgentUnavailable(label) ==
    [answer |-> label \o " agent unavailable",
     metadata |-> [error |-> "Agent not discovered"],
     risk_score |-> 0]
AgentFailed_NoReason(label, e) ==
    [answer |-> label \o " failed: " \o e, metadata |-> <<>>, risk_score |-> 0]
AgentFailed(label, e) ==
    [answer |-> label \o " failed: " \o e, metadata |-> [error |-> e], risk_score |-> 0]
AgentAnswered(outcome) ==
    [answer |-> "answer", metadata |-> <<>>, risk_score |-> outcome.risk_score]

\* invoke_pool_risk / invoke_token_intel for the agent under key.
InvokeAgent(key, label, field, next) ==
    /\ IF key \notin remote_agent_connections
       THEN /\ overall_state' = Update(overall_state, field :> AgentUnavailable(label))
            /\ UNCHANGED sent
       ELSE \E outcome \in RemoteOutcomes :
                /\ overall_state' =
                       Update(overall_state,
                              field :> (IF outcome.raised = "" THEN AgentAnswered(outcome)
                                        ELSE AgentFailed(label, outcome.raised)))
                /\ sent' = Append(sent, [agent |-> key, raised |-> outcome.raised])
    /\ orch_node' = next
    /\ UNCHANGED <<remote_agent_connections, resolved, requests_handled, notOrch>>

InvokePoolRisk ==
    /\ orch_node = "invoke_pool_risk"
    /\ orch_visited' = Append(orch_visited, "invoke_pool_risk")
    /\ InvokeAgent("pool_risk", "Pool Risk", "pool_risk_result", "check_token_intel_needed")

InvokeTokenIntel ==
    /\ orch_node = "invoke_token_intel"
    /\ orch_visited' = Append(orch_visited, "invoke_token_intel")
    /\ InvokeAgent("token_intelligence", "Token Intelligence", "token_intel_result",
                   "synthesize_results")

\* check_token_intel_needed: the node returns the state as it is, the edge
\* function picks the next node.
TokenIntelNeeded(state) ==
    IF Get(state, "routing_decision", "both") = "both"
    THEN "invoke_token_intel" ELSE "synthesize_results"

CheckTokenIntelNeeded ==
    /\ orch_node = "check_token_intel_needed"
    /\ orch_node' = TokenIntelNeeded(overall_state)
    /\ orch_visited' = Append(orch_visited, "check_token_intel_needed")
    /\ UNCHANGED <<remote_agent_connections, resolved, overall_state, sent,
                   requests_handled, notOrch>>

\* synthesize_results: the oracle's answer, or the text of its failure.
SynthesizeResults ==
    /\ orch_node = "synthesize_results"
    /\ \E raised \in {"", "oracle failed"} :
        overall_state' =
            Update(overall_state,
                   [final_answer |-> IF raised = "" THEN "synthesized answer"
                                     ELSE "Failed to synthesize results: " \o raised])
    /\ orch_node' = "finalize_output"
    /\ orch_visited' = Append(orch_visited, "synthesize_results")
    /\ UNCHANGED <<remote_agent_connections, resolved, sent, requests_handled, notOrch>>

\* A composite that averages every stored score, a zero included.
CompositeRisk_ZerosCounted(pool_risk, token_intel) ==
    LET risk_scores ==
            (IF "risk_score" \in DOMAIN pool_risk THEN <<pool_risk.risk_score>> ELSE <<>>)
            \o (IF "risk_score" \in DOMAIN token_intel THEN <<token_intel.risk_score>> ELSE <<>>)
    IN  IF risk_scores # <<>> THEN Frac(Sum(risk_scores), Len(risk_scores)) ELSE Whole(0)

\* finalize_output: composite_risk
CompositeRisk(pool_risk, token_intel) ==
    LET risk_scores ==
            (IF Get(pool_risk, "risk_score", 0) # 0 THEN <<pool_risk.risk_score>> ELSE <<>>)
            \o (IF Get(token_intel, "risk_score", 0) # 0 THEN <<token_intel.risk_score>> ELSE <<>>)
    IN  IF risk_scores # <<>> THEN Frac(Sum(risk_scores), Len(risk_scores)) ELSE Whole(0)

OrchestratorFinalizeOutput ==
    /\ orch_node = "finalize_output"
    /\ LET pool_risk == Get(overall_state, "pool_risk_result", <<>>)
           token_intel == Get(overall_state, "token_intel_result", <<>>)
           composite_risk == CompositeRisk(pool_risk, token_intel)
       IN  overall_state' =
            Update(overall_state,
                   [answer |-> Get(overall_state, "final_answer",
                                   Get(overall_state, "answer", "No answer generated")),
                    metadata |-> [pool_risk |-> Get(pool_risk, "metadata", <<>>),
                                  token_intel |-> Get(token_intel, "metadata", <<>>),
                                  composite_risk_score |-> composite_risk],
                    risk_score |-> composite_risk])
    /\ orch_node' = "END"
    /\ orch_visited' = Append(orch_visited, "finalize_output")
    /\ UNCHANGED <<remote_agent_connections, resolved, sent, requests_handled, notOrch>>

\* ============================================================ PoolRiskAgent
\* What the startup probe (httpx.post to the MCP endpoint) gives: a response
\* of any status, or an exception, named by its class.
ProbeOutcomes == {"response", "ConnectError", "ReadTimeout", "ConnectionResetError"}

\* _init_mcp_tools_sync: self.mcp_available after the probe.
ProbeAvailable(outcome) ==
    IF outcome = "response" THEN TRUE
    ELSE IF outcome = "ConnectError" THEN FALSE
    ELSE ~ Contains(outcome, "Connection")

\* __init__: the graph built for the availability and the tools held.
GraphFor(available, tools) ==
    IF available /\ tools # <<>> THEN "PlanExecuteGraph" ELSE "PoolRiskGraph"

\* PoolRiskAgent.__init__
AgentInit ==
    /\ agent_pc = "new"
    /\ \E outcome \in ProbeOutcomes :
        /\ probe' = outcome
        /\ mcp_available' = ProbeAvailable(outcome)
    /\ mcp_tools' = <<>>
    /\ graph_instance' = GraphFor(mcp_available', mcp_tools')
    /\ agent_pc' = "ready"
    /\ UNCHANGED <<run_state, run_node, loads, served, analyzed, coroutines,
                   notAgent>>

\* What _init_mcp_tools meets: get_tools returns the server's tools or an
\* empty list, the adapter package is missing, or the connection fails.
LoadOutcomes == {"tools", "no tools", "ImportError", "Exception"}

\* A load whose failure leaves the agent believing the server is there.
AfterLoad_StaysAvailable(outcome) ==
    IF outcome = "tools"
    THEN [mcp_available |-> TRUE, mcp_tools |-> AnalyzerTools \o <<CompositeTool>>]
    ELSE [mcp_available |-> TRUE, mcp_tools |-> <<>>]

\* _init_mcp_tools: self.mcp_available and self.mcp_tools after it.
AfterLoad(outcome) ==
    IF outcome = "tools"
    THEN [mcp_available |-> TRUE, mcp_tools |-> AnalyzerTools \o <<CompositeTool>>]
    ELSE [mcp_available |-> FALSE, mcp_tools |-> <<>>]

\* invoke: initial_state
InitialState(pool_address) ==
    [user_question |-> "question", pool_address |-> pool_address, exit_flag |-> FALSE]

\* One request in service, and what became of it.
Serving(graph) == [graph |-> graph, raised |-> "", answer |-> "", done |-> FALSE]
Served(entry, raised, answer) ==
    [graph |-> entry.graph, raised |-> raised, answer |-> answer, done |-> TRUE]

\* invoke, up to the call of the graph. The plan-execute graph's run is the
\* one of SpecPlanExecute, which always ends with an answer; the static
\* graph's run follows node by node.
AgentInvoke ==
    /\ agent_pc = "ready"
    /\ Len(served) < MaxRequests
    /\ LET lazy == mcp_available /\ mcp_tools = <<>>
       IN  \E outcome \in IF lazy THEN LoadOutcomes ELSE {"not loaded"},
              pool_address \in PoolAddresses :
            LET after == IF lazy THEN AfterLoad(outcome)
                         ELSE [mcp_available |-> mcp_available, mcp_tools |-> mcp_tools]
                graph == IF lazy /\ after.mcp_tools # <<>>
                         THEN "PlanExecuteGraph" ELSE graph_instance
            IN  /\ mcp_available' = after.mcp_available
                /\ mcp_tools' = after.mcp_tools
                /\ graph_instance' = graph
                /\ loads' = IF lazy THEN Append(loads, outcome) ELSE loads
                /\ IF graph = "PoolRiskGraph"
                   THEN /\ run_state' = InitialState(pool_address)
                        /\ run_node' = "enhance_query"
                        /\ agent_pc' = "running"
                        /\ served' = Append(served, Serving(graph))
                   ELSE /\ served' = Append(served, Served(Serving(graph), "", "answer"))
                        /\ UNCHANGED <<run_state, run_node, agent_pc>>
    /\ UNCHANGED <<probe, analyzed, coroutines, notAgent>>

\* refresh_mcp_tools: _init_mcp_tools once more; the graph held is not touched.
RefreshMcpTools ==
    /\ agent_pc = "ready"
    /\ Len(loads) < MaxLoads
    /\ \E outcome \in LoadOutcomes :
        /\ mcp_available' = AfterLoad(outcome).mcp_available
        /\ mcp_tools' = AfterLoad(outcome).mcp_tools
        /\ loads' = Append(loads, outcome)
    /\ UNCHANGED <<graph_instance, agent_pc, run_state, run_node, probe, served,
                   analyzed, coroutines, notAgent>>

\* --- invoke as coroutines of one event loop: a coroutine runs alone up to
\* its next await, where the others may run.
\* A call of invoke not yet started, and what it becomes.
Called == [pc |-> "called", graph |-> ""]
Loading == [pc |-> "loading", graph |-> ""]
GraphRun(graph) == [pc |-> "done", graph |-> graph]

\* invoke up to its first await: the test for the lazy load, after which the
\* coroutine waits in get_tools (the adapter package being installed);
\* without lazy load the graph held is run.
CoInvoke(r) ==
    /\ agent_pc = "ready"
    /\ coroutines[r] = Called
    /\ coroutines' = [coroutines EXCEPT ![r] =
                        IF mcp_available /\ mcp_tools = <<>>
                        THEN Loading ELSE GraphRun(graph_instance)]
    /\ UNCHANGED <<mcp_available, mcp_tools, graph_instance, agent_pc, run_state,
                   run_node, probe, loads, served, analyzed, notAgent>>

\* get_tools returns or raises in a waiting coroutine: the rest of
\* _init_mcp_tools, the rebuild of the graph if tools are held, and the call
\* of the graph held then.
CoLoadReturns(r) ==
    /\ coroutines[r] = Loading
    /\ \E outcome \in LoadOutcomes \ {"ImportError"} :
        LET after == AfterLoad(outcome)
            graph == IF after.mcp_tools # <<>> THEN "PlanExecuteGraph" ELSE graph_instance
        IN  /\ mcp_available' = after.mcp_available
            /\ mcp_tools' = after.mcp_tools
            /\ loads' = Append(loads, outcome)
            /\ graph_instance' = graph
            /\ coroutines' = [coroutines EXCEPT ![r] = GraphRun(graph)]
    /\ UNCHANGED <<agent_pc, run_state, run_node, probe, served, analyzed, notAgent>>

\* --- PoolRiskGraph, the static pipeline
\* PoolRiskNodes.enhance_query
EnhanceQuery ==
    /\ agent_pc = "running"
    /\ run_node = "enhance_query"
    /\ run_state' =
        Update(run_state,
               [enhanced_query |->
                    IF run_state.pool_address # ""
                    THEN "Pool address: " \o run_state.pool_address
                            \o "\n\nUser query: " \o run_state.user_question
                    ELSE run_state.user_question,
                exit_flag |-> FALSE])
    /\ run_node' = "extract_entities"
    /\ UNCHANGED <<mcp_available, mcp_tools, graph_instance, agent_pc, probe, loads,
                   served, analyzed, coroutines, notAgent>>

\* PoolRiskNodes.extract_entities: the same entities whether the oracle call
\* answers or raises.
ExtractEntities ==
    /\ agent_pc = "running"
    /\ run_node = "extract_entities"
    /\ \E raised \in {"", "oracle failed"} :
        run_state' =
            Update(run_state,
                   [extracted_entities |-> [analyses_needed |-> <<"comprehensive">>,
                                            pool_address |-> run_state.pool_address],
                    exit_flag |-> FALSE])
    /\ run_node' = "run_analyses"
    /\ UNCHANGED <<mcp_available, mcp_tools, graph_instance, agent_pc, probe, loads,
                   served, analyzed, coroutines, notAgent>>

\* The analyze calls of run_analyses, in the order of the try block, under
\* the keys their results are stored with.
AnalysisOrder == <<"concentration", "liquidity_depth", "market_risk", "behavioral">>

\* What the analyses of run_analyses give: a comprehensive result, or an
\* exception out of the fetch of the analyzer at position failed.
AnalysesOutcomes ==
    {[raised |-> e, failed |-> k, level |-> ""] : e \in FetchErrors, k \in 1..4}
        \cup {[raised |-> "", failed |-> 0, level |-> l] : l \in {"LOW", "HIGH"}}

\* The analyze calls made under an outcome: the try block is left at the
\* first call that raises.
AnalyzeCalls(outcome) ==
    [i \in 1..(IF outcome.raised = "" THEN 4 ELSE outcome.failed) |->
        [analyzer |-> AnalysisOrder[i],
         raised |-> IF i = outcome.failed THEN outcome.raised ELSE ""]]

\* The pool address run_analyses works on.
RunPoolAddress(state) ==
    LET entities == Get(state, "extracted_entities", <<>>)
    IN  IF Get(entities, "pool_address", "") # ""
        THEN entities.pool_address ELSE Get(state, "pool_address", "")

\* run_analyses: the dict it returns.
RunAnalysesReturn(state, outcome) ==
    LET entities == Get(state, "extracted_entities", <<>>)
        pool_address == IF Get(entities, "pool_address", "") # ""
                        THEN entities.pool_address ELSE Get(state, "pool_address", "")
    IN  IF pool_address = ""
        THEN [tool_results |-> <<[error |-> "No pool address provided"]>>, exit_flag |-> TRUE]
        ELSE IF outcome.raised # ""
        THEN [tool_results |-> <<[error |-> outcome.raised]>>, exit_flag |-> TRUE]
        ELSE [tool_results |->
                <<[type |-> "comprehensive_analysis",
                   concentration |-> [analyzer |-> "concentration"],
                   liquidity_depth |-> [analyzer |-> "liquidity_depth"],
                   market_risk |-> [analyzer |-> "market_risk"],
                   behavioral |-> [analyzer |-> "behavioral"],
                   composite_score |-> [composite_score |-> 50, risk_level |-> outcome.level]]>>,
              exit_flag |-> FALSE]

\* check_exit
CheckExit(state) ==
    IF Get(state, "exit_flag", FALSE) THEN "finalize_output" ELSE "synthesize_answer"

RunAnalyses ==
    /\ agent_pc = "running"
    /\ run_node = "run_analyses"
    /\ \E outcome \in AnalysesOutcomes :
        /\ run_state' = Update(run_state, RunAnalysesReturn(run_state, outcome))
        /\ run_node' = CheckExit(run_state')
        /\ analyzed' = IF RunPoolAddress(run_state) = "" THEN <<>> ELSE AnalyzeCalls(outcome)
    /\ UNCHANGED <<mcp_available, mcp_tools, graph_instance, agent_pc, probe, loads,
                   served, coroutines, notAgent>>

\* PoolRiskNodes.synthesize_answer
SynthesizeAnswer ==
    /\ agent_pc = "running"
    /\ run_node = "synthesize_answer"
    /\ LET tool_results == Get(run_state, "tool_results", <<>>)
       IN  IF tool_results = <<>> \/ "error" \in DOMAIN tool_results[1]
           THEN run_state' =
                    Update(run_state,
                           [synthesized_answer |->
                                "Analysis failed: "
                                    \o (IF tool_results = <<>> THEN "No results"
                                        ELSE tool_results[1].error),
                            exit_flag |-> TRUE])
           ELSE \E raised \in {"", "oracle failed"} :
                    run_state' =
                        Update(run_state,
                               [synthesized_answer |->
                                    IF raised = "" THEN "synthesized answer"
                                    ELSE "Failed to generate answer: " \o raised,
                                exit_flag |-> FALSE])
    /\ run_node' = "finalize_output"
    /\ UNCHANGED <<mcp_available, mcp_tools, graph_instance, agent_pc, probe, loads,
                   served, analyzed, coroutines, notAgent>>

\* finalize_output: state["synthesized_answer"] raises KeyError when no node
\* has set the key.
FinalizeRaises(state) ==
    IF "synthesized_answer" \in DOMAIN state THEN "" ELSE "KeyError: 'synthesized_answer'"

\* PoolRiskNodes.finalize_output, and the end of invoke: the response built
\* from the graph's result, or the graph's exception raised again.
PoolRiskFinalizeOutput ==
    /\ agent_pc = "running"
    /\ run_node = "finalize_output"
    /\ LET tool_results == Get(run_state, "tool_results", <<>>)
           metadata ==
                IF tool_results # <<>> /\ "composite_score" \in DOMAIN tool_results[1]
                THEN [risk_score |-> tool_results[1].composite_score.composite_score,
                      risk_level |-> tool_results[1].composite_score.risk_level]
                ELSE <<>>
           raised == FinalizeRaises(run_state)
       IN  IF raised = ""
           THEN /\ run_state' =
                    Update(run_state,
                           [answer |-> Get(run_state, "synthesized_answer", "No answer generated"),
                            metadata |-> metadata])
                /\ served' = [served EXCEPT ![Len(served)] =
                                Served(@, "", run_state'.answer)]
           ELSE /\ served' = [served EXCEPT ![Len(served)] = Served(@, raised, "")]
                /\ UNCHANGED run_state
    /\ run_node' = "END"
    /\ agent_pc' = "ready"
    /\ UNCHANGED <<mcp_available, mcp_tools, graph_instance, probe, loads, analyzed,
                   coroutines, notAgent>>

\* ========================================================== specifications
\* A component that is not running: its variables at rest.
IdleOrchestrator ==
    /\ remote_agent_connections = {}
    /\ resolved = {}
    /\ overall_state = <<>>
    /\ orch_node = "END"
    /\ orch_visited = <<>>
    /\ sent = <<>>
    /\ requests_handled = 0

IdleAgent ==
    /\ mcp_available = FALSE
    /\ mcp_tools = <<>>
    /\ graph_instance = "undefined"
    /\ agent_pc = "new"
    /\ run_state = <<>>
    /\ run_node = "END"
    /\ probe = ""
    /\ loads = <<>>
    /\ served = <<>>
    /\ analyzed = <<>>
    /\ coroutines = <<>>

IdleFetch ==
    /\ dataset = {} /\ ranking = <<>> /\ batch_size = 1 /\ max_retries = 0
    /\ fpc = "idle" /\ all_entities = <<>> /\ last_id = 0 /\ attempt = 0
    /\ fresult = NoResult /\ ferror = "" /\ call = 0 /\ pages = <<>> /\ netlog = <<>>

IdleThreads ==
    /\ pc = [p \in 1..NThreads |-> "idle"]
    /\ tl = [p \in 1..NThreads |-> NoLocals]
    /\ completed = <<>>

IdleCache ==
    /\ enabled = FALSE /\ cache_entities = [e \in {"ticks", "swaps"} |-> FALSE]
    /\ static_ttl = 1 /\ now = 0
    /\ store = [p \in Paths |-> NoFile] /\ lastcall = NoCall
    /\ IdleThreads

IdlePlan ==
    /\ registered = {} /\ graph_state = <<>> /\ node = "idle" /\ step = "enter"
    /\ tasks = <<>> /\ results = <<>> /\ plan_result = NoPlanResult
    /\ visited = <<>> /\ calls = <<>>

IdleScore ==
    /\ weights = [a \in Analyzers |-> Frac(1, 4)]
    /\ risk_levels = <<Level("low", 0, 100)>>
    /\ scored = NotScored

IdleAnalyze ==
    /\ config = Config(FALSE)
    /\ analysis = NoAnalysis
    /\ analysis_raised = NoRaise
    /\ analysis_locals = NoFetched

\* --- GraphPaginator: one fetch_all call against an indexer.
InitFetch ==
    /\ dataset \in SUBSET (1..MaxId)
    /\ ranking = SortedSeq(dataset)
    /\ batch_size \in 1..MaxBatch
    /\ max_retries \in 0..MaxRetries
    /\ fpc = "idle"
    /\ all_entities = <<>>
    /\ last_id = 0
    /\ attempt = 0
    /\ fresult = NoResult
    /\ ferror = ""
    /\ call = 0
    /\ pages = <<>>
    /\ netlog = <<>>
    /\ IdleCache
    /\ IdleAnalyze
    /\ IdleScore
    /\ IdlePlan
    /\ IdleOrchestrator
    /\ IdleAgent

NextFetch ==
    \/ FetchAll
    \/ AttemptOk
    \/ AttemptRequestFails
    \/ AttemptGraphQLErrors

SpecFetch == InitFetch /\ [][NextFetch]_vars

\* --- GraphPaginator: the fetch_all call of _fetch_recent_swaps, whose query
\* orders the swaps by timestamp, newest first; the swaps have ids and
\* timestamps of any kind, so their ranking is any order of the ids.
Rankings(S) ==
    {r \in [1..Cardinality(S) -> S] : \A i, j \in 1..Cardinality(S) : r[i] = r[j] => i = j}

InitFetchSwaps ==
    /\ dataset \in SUBSET (1..MaxId)
    /\ ranking \in Rankings(dataset)
    /\ batch_size \in 1..MaxBatch
    /\ max_retries = 1
    /\ fpc = "idle"
    /\ all_entities = <<>>
    /\ last_id = 0
    /\ attempt = 0
    /\ fresult = NoResult
    /\ ferror = ""
    /\ call = 0
    /\ pages = <<>>
    /\ netlog = <<>>
    /\ IdleCache
    /\ IdleAnalyze
    /\ IdleScore
    /\ IdlePlan
    /\ IdleOrchestrator
    /\ IdleAgent

SpecFetchSwaps == InitFetchSwaps /\ [][NextFetch]_vars

\* --- CacheManager, one call at a time, the clock running and files decaying.
InitCache ==
    /\ enabled \in BOOLEAN
    /\ cache_entities \in [{"ticks", "swaps"} -> BOOLEAN]
    /\ static_ttl \in 1..MaxTTL
    /\ now = 0
    /\ store = [p \in Paths |-> NoFile]
    /\ lastcall = NoCall
    /\ IdleThreads
    /\ IdleFetch
    /\ IdleAnalyze
    /\ IdleScore
    /\ IdlePlan
    /\ IdleOrchestrator
    /\ IdleAgent

NextCache ==
    \/ \E k \in Keys, e \in EntityTypes : CacheGet(k, e)
    \/ \E k \in Keys, e \in EntityTypes, d \in Data : CacheSet(k, e, d)
    \/ Tick
    \/ \E p \in Paths : Corrupt(p)

SpecCache == InitCache /\ [][NextCache]_vars

\* --- CacheManager, NThreads concurrent calls on one key of a cached type.
InitCacheConc ==
    /\ enabled \in BOOLEAN
    /\ cache_entities = [e \in {"ticks", "swaps"} |-> e = "ticks"]
    /\ static_ttl \in 1..MaxTTL
    /\ now = 0
    /\ store \in [Paths -> {NoFile, File(JsonDump(CacheData(0, ConcType, "d1")))}]
    /\ lastcall = NoCall
    /\ IdleThreads
    /\ IdleFetch
    /\ IdleAnalyze
    /\ IdleScore
    /\ IdlePlan
    /\ IdleOrchestrator
    /\ IdleAgent

NextCacheConc ==
    \/ \E p \in 1..NThreads, d \in Data : TCallSet(p, d)
    \/ \E p \in 1..NThreads : TOpenWrite(p)
    \/ \E p \in 1..NThreads : TWrite(p)
    \/ \E p \in 1..NThreads : TCallGet(p)
    \/ \E p \in 1..NThreads : TExists(p)
    \/ \E p \in 1..NThreads : TOpenRead(p)
    \/ \E p \in 1..NThreads : TRemoveExpired(p)
    \/ \E p \in 1..NThreads : TRecheck(p)
    \/ \E p \in 1..NThreads : TRemoveCorrupt(p)
    \/ Tick

SpecCacheConc == InitCacheConc /\ [][NextCacheConc]_vars

\* --- the analyzers: one analyze call on what the indexer holds for a pool.
InitAnalyze ==
    /\ config \in Configs
    /\ analysis = NoAnalysis
    /\ analysis_raised = NoRaise
    /\ analysis_locals = NoFetched
    /\ IdleCache
    /\ IdleFetch
    /\ IdleScore
    /\ IdlePlan
    /\ IdleOrchestrator
    /\ IdleAgent

NextAnalyze ==
    \/ AnalyzeConcentration
    \/ AnalyzeLiquidity
    \/ AnalyzeMarket
    \/ AnalyzeBehavioral
    \/ AnalyzeFetchRaises

SpecAnalyze == InitAnalyze /\ [][NextAnalyze]_vars

\* --- RiskScorer: one score call on four results.
InitScore ==
    /\ weights \in WeightSets
    /\ risk_levels \in LevelSets
    /\ scored = NotScored
    /\ IdleCache
    /\ IdleFetch
    /\ IdleAnalyze
    /\ IdlePlan
    /\ IdleOrchestrator
    /\ IdleAgent

NextScore == ScoreCall

SpecScore == InitScore /\ [][NextScore]_vars

\* --- PlanExecuteGraph: one run of the graph, from the initial state the
\* agent builds.
InitPlanExecute ==
    /\ registered \in Registrations
    /\ \E pool_address \in PoolAddresses :
        graph_state = [user_question |-> "question", pool_address |-> pool_address,
                       exit_flag |-> FALSE]
    /\ node = "plan"
    /\ step = "enter"
    /\ tasks = <<>>
    /\ results = <<>>
    /\ plan_result = NoPlanResult
    /\ visited = <<>>
    /\ calls = <<>>
    /\ IdleCache
    /\ IdleFetch
    /\ IdleAnalyze
    /\ IdleScore
    /\ IdleOrchestrator
    /\ IdleAgent

NextPlanExecute ==
    \/ PlanNode
    \/ ExecuteToolsNode
    \/ \E i \in 1..Len(tasks) : ToolSettles(i)
    \/ GatherReturns
    \/ CompositeInvoke
    \/ NoToolsResponseNode
    \/ SynthesizeNode
    \/ FinalizeNode

SpecPlanExecute == InitPlanExecute /\ [][NextPlanExecute]_vars

\* The runtime runs the node that is due, and every oracle and tool call
\* returns or raises.
SpecPlanExecuteFair == SpecPlanExecute /\ WF_vars(NextPlanExecute)

\* --- OrchestratorGraph: the requests one instance handles, one after another.
InitOrchestrator ==
    /\ IdleOrchestrator
    /\ IdleFetch
    /\ IdleCache
    /\ IdleAnalyze
    /\ IdleScore
    /\ IdlePlan
    /\ IdleAgent

NextOrchestrator ==
    \/ InvokeOrchestrator
    \/ DiscoverAgents
    \/ AnalyzeQuery
    \/ InvokePoolRisk
    \/ CheckTokenIntelNeeded
    \/ InvokeTokenIntel
    \/ SynthesizeResults
    \/ OrchestratorFinalizeOutput

SpecOrchestrator == InitOrchestrator /\ [][NextOrchestrator]_vars

\* --- PoolRiskAgent: startup, then the requests one after another.
InitPoolRiskAgent ==
    /\ IdleAgent
    /\ IdleFetch
    /\ IdleCache
    /\ IdleAnalyze
    /\ IdleScore
    /\ IdlePlan
    /\ IdleOrchestrator

NextPoolRiskAgent ==
    \/ AgentInit
    \/ AgentInvoke
    \/ EnhanceQuery
    \/ ExtractEntities
    \/ RunAnalyses
    \/ SynthesizeAnswer
    \/ PoolRiskFinalizeOutput

SpecPoolRiskAgent == InitPoolRiskAgent /\ [][NextPoolRiskAgent]_vars

\* --- PoolRiskAgent with refresh_mcp_tools called between the requests.
NextPoolRiskAgentRefresh ==
    \/ NextPoolRiskAgent
    \/ RefreshMcpTools

SpecPoolRiskAgentRefresh == InitPoolRiskAgent /\ [][NextPoolRiskAgentRefresh]_vars

\* --- PoolRiskAgent: startup, then NCoroutines invoke calls on one event loop.
InitPoolRiskAgentConc ==
    /\ mcp_available = FALSE
    /\ mcp_tools = <<>>
    /\ graph_instance = "undefined"
    /\ agent_pc = "new"
    /\ run_state = <<>>
    /\ run_node = "END"
    /\ probe = ""
    /\ loads = <<>>
    /\ served = <<>>
    /\ analyzed = <<>>
    /\ coroutines = [r \in 1..NCoroutines |-> Called]
    /\ IdleFetch
    /\ IdleCache
    /\ IdleAnalyze
    /\ IdleScore
    /\ IdlePlan
    /\ IdleOrchestrator

NextPoolRiskAgentConc ==
    \/ AgentInit
    \/ \E r \in 1..NCoroutines : CoInvoke(r)
    \/ \E r \in 1..NCoroutines : CoLoadReturns(r)

SpecPoolRiskAgentConc == InitPoolRiskAgentConc /\ [][NextPoolRiskAgentConc]_vars

\* ------------------------------------------------ claims on GraphPaginator
AttemptsOfCall(c) == {i \in DOMAIN netlog : netlog[i].call = c}

\* C1: when fetch_all returns, its result is the concatenation of the pages
\* in the order the server returned them, and it holds every record of the
\* queried set exactly once (no id twice, none missing), in server order.
C1_FetchAllReturnsEveryRecordOnce ==
    fpc = "done" =>
        /\ fresult = Concat(pages)
        /\ Cardinality(Range(fresult)) = Len(fresult)
        /\ Range(fresult) = dataset
        /\ fresult = SortedSeq(dataset)

\* The scenario of C1: batch_size 2, five records, pages of 2, 2 and 1.
C1_Witness ==
    /\ fpc = "done"
    /\ batch_size = 2
    /\ Len(fresult) = 5
    /\ Len(pages) = 3
    /\ Len(pages[1]) = 2 /\ Len(pages[2]) = 2 /\ Len(pages[3]) = 1

\* C2: fetch_all stops on the first page shorter than batch_size (the empty
\* page included): every page before the last one received was full, a
\* returned run ends with a short page, after a full page a further request
\* is issued, and the requests are made one call after another, each with
\* the cursor set to the last id of the previous page (0, the empty string,
\* for the first).
C2_StopsOnFirstShortPage ==
    /\ \A i \in 1..Len(pages) : i < Len(pages) => Len(pages[i]) = batch_size
    /\ fpc = "done" => (pages # <<>> /\ Len(Last(pages)) < batch_size)
    /\ (pages # <<>> /\ Len(Last(pages)) = batch_size) =>
           \/ fpc = "attempt" /\ call = Len(pages) + 1 /\ attempt \in RetryRange
           \/ fpc = "failed" /\ AttemptsOfCall(Len(pages) + 1) # {}
    /\ \A i \in DOMAIN netlog :
           /\ netlog[i].cursor =
                 IF netlog[i].call = 1 THEN 0 ELSE Last(pages[netlog[i].call - 1])
           /\ \A j \in DOMAIN netlog : j < i => netlog[j].call <= netlog[i].call
           /\ netlog[i].call <= Len(pages) + 1

\* A run that met a full page, was asked for more, and ended on an empty page.
C2_Witness ==
    /\ fpc = "done"
    /\ Len(pages) = 3
    /\ Len(pages[2]) = batch_size
    /\ pages[3] = <<>>
    /\ netlog[Len(netlog)].cursor = Last(pages[2])

\* C3: one _execute_with_retry call makes at most max_retries network
\* attempts, makes none after its first successful one, and ends in an
\* error, never in a result, when its attempts failed: a failed fetch_all
\* returns nothing, and a returned fetch_all had every call succeed.
C3_BoundedRetriesFailFast ==
    /\ \A c \in 1..call : Cardinality(AttemptsOfCall(c)) <= max_retries
    /\ \A i \in DOMAIN netlog : netlog[i].outcome = "ok" =>
           \A j \in DOMAIN netlog : j > i => netlog[j].call > netlog[i].call
    /\ fpc = "failed" => (fresult = NoResult /\ ferror # "")
    /\ fpc = "done" =>
           \A c \in 1..call : \E i \in AttemptsOfCall(c) : netlog[i].outcome = "ok"
    /\ (/\ call > 0
        /\ Cardinality(AttemptsOfCall(call)) = max_retries
        /\ \A i \in AttemptsOfCall(call) : netlog[i].outcome # "ok") => fpc = "failed"

\* A call whose max_retries = 3 attempts all failed, after one page came in.
C3_Witness ==
    /\ fpc = "failed"
    /\ max_retries = 3
    /\ call = 2
    /\ Cardinality(AttemptsOfCall(2)) = 3
    /\ fresult = NoResult

\* C4: an attempt answered with a GraphQL "errors" array counts as a failed
\* attempt like a non-2xx answer: the call fails terminally only once
\* max_retries attempts of it have failed.
C4_GraphQLErrorsAreRetried ==
    (fpc = "failed" /\ call > 0) =>
        Cardinality(AttemptsOfCall(call)) = max_retries

\* ------------------------------------------------- claims on CacheManager
\* The entity type's switch is on and the cache is enabled.
SwitchedOn(entity_type) ==
    /\ enabled
    /\ entity_type \in DOMAIN cache_entities
    /\ cache_entities[entity_type]

\* The file holds an entry as set writes it.
WellFormed(f) ==
    /\ f.exists
    /\ Len(f.content) = NChunks
    /\ \A i \in 1..NChunks : f.content[i] = [val |-> f.content[1].val, part |-> i]
    /\ f.content[1].val.json = "object"
    /\ f.content[1].val.has_cached_at
    /\ f.content[1].val.cached_at.type = "iso"
    /\ f.content[1].val.has_data

\* C5: a get on a cached entity type finds a well-formed entry: when the
\* entry's age (the time of the call minus its cached_at) exceeds the TTL the
\* call returns None and the file is gone when it returns; otherwise it
\* returns the entry's data and leaves the file as it was.
C5_ExpiredEntryIsAbsentAndEvicted ==
    (lastcall.op = "get" /\ SwitchedOn(lastcall.entity_type) /\ WellFormed(lastcall.before)) =>
        LET v == lastcall.before.content[1].val IN
        /\ lastcall.raised = ""
        /\ IF lastcall.at - v.cached_at.t > static_ttl
             THEN lastcall.ret = None /\ ~lastcall.after.exists
             ELSE lastcall.ret = v.data /\ lastcall.after = lastcall.before

\* A well-formed entry read one second past its TTL: absent and evicted.
C5_Witness ==
    /\ lastcall.op = "get"
    /\ SwitchedOn(lastcall.entity_type)
    /\ WellFormed(lastcall.before)
    /\ lastcall.at - lastcall.before.content[1].val.cached_at.t = static_ttl + 1
    /\ lastcall.ret = None
    /\ ~lastcall.after.exists

\* C6: for an entity type whose switch is off or missing from the table, or
\* with the cache disabled, set leaves the file as it was, and get returns
\* None without opening or removing the file.
C6_SwitchedOffTypesBypassTheCache ==
    (lastcall.op \in {"get", "set"} /\ ~SwitchedOn(lastcall.entity_type)) =>
        /\ lastcall.after = lastcall.before
        /\ ~lastcall.opened
        /\ lastcall.ret = None
        /\ lastcall.raised = ""

\* A get for a type missing from the switch table, the cache enabled and a
\* file present under the key.
C6_Witness ==
    /\ lastcall.op = "get"
    /\ enabled
    /\ lastcall.entity_type \notin DOMAIN cache_entities
    /\ lastcall.before.exists
    /\ lastcall.ret = None

\* An entry of one of the kinds C7 lists: invalid JSON, or an object with no
\* cached_at, no data, or a cached_at that is no timestamp.
CorruptEntry(f) ==
    /\ f.exists
    /\ \/ JsonLoad(f.content) = {Invalid}
       \/ \E v \in JsonLoad(f.content) :
             /\ v.json = "object"
             /\ ~v.has_cached_at \/ ~v.has_data \/ v.cached_at.type # "iso"

\* C7: a get on a cached entity type that finds a corrupted or unparsable
\* entry returns None, removes the file, and does not raise.
C7_CorruptEntryIsEvictedWithoutRaising ==
    (lastcall.op = "get" /\ SwitchedOn(lastcall.entity_type) /\ CorruptEntry(lastcall.before)) =>
        /\ lastcall.ret = None
        /\ ~lastcall.after.exists
        /\ lastcall.raised = ""

\* C8: once every concurrent call made on the key has returned, the file holds
\* the whole value of the set that finished last, and every get returned
\* None or the data of one whole written value.
C8_LastWriteWins ==
    /\ ((\A p \in 1..NThreads : pc[p] \in {"idle", "done"}) /\ completed # <<>>) =>
           store[ConcPath] = File(JsonDump(tl[Last(completed)].payload))
    /\ \A p \in 1..NThreads :
           (tl[p].op = "get" /\ pc[p] = "done") => tl[p].ret \in {None} \cup Data


\* --------------------------------------------------- claims on the analyzers
\* The empty upstream data: analyze took its no-data return.
NoDataCall == analysis # NoAnalysis /\ analysis.size = 0

\* C9: every result an analyzer's analyze returns contains a risk score that
\* is a number (never null), the result returned on empty or absent upstream
\* data included.
C9_EveryResultHasNumericRiskScore ==
    analysis # NoAnalysis =>
        /\ "risk_score" \in DOMAIN analysis.result
        /\ analysis.result.risk_score \in Int

\* The flags a threshold comparison appends.
ThresholdFlags ==
    {"CRITICAL_TOP10_DOMINANCE", "HIGH_TOP10_DOMINANCE", "CRITICAL_GINI", "HIGH_GINI",
     "CRITICAL_HHI", "HIGH_HHI", "HIGH_MERCENARY_LIQUIDITY",
     "CRITICAL_SLIPPAGE_100K", "HIGH_SLIPPAGE_100K", "CRITICAL_SLIPPAGE_1M",
     "HIGH_SLIPPAGE_1M", "LOW_ACTIVE_LIQUIDITY", "HIGH_TVL_VOLATILITY",
     "CRITICAL_LOW_UTILIZATION", "LOW_UTILIZATION", "VERY_HIGH_IL_RISK", "HIGH_IL_RISK",
     "CRITICAL_WASH_TRADING", "HIGH_WASH_TRADING", "CRITICAL_MEV_EXPOSURE",
     "HIGH_MEV_EXPOSURE"}

\* C10: the risk_flags of every analyzer result is a non-empty list: it is
\* ["NO_DATA"] on the no-data path, and ["LOW_RISK"] on a path with data on
\* which no threshold fires; otherwise it holds the flags of the thresholds
\* that fired and nothing else.
C10_RiskFlagsNeverEmpty ==
    analysis # NoAnalysis =>
        LET flags == analysis.result.risk_flags
        IN  /\ flags # <<>>
            /\ NoDataCall => flags = <<"NO_DATA">>
            /\ (~NoDataCall /\ Range(flags) \cap ThresholdFlags = {}) => flags = <<"LOW_RISK">>
            /\ (~NoDataCall /\ Range(flags) \cap ThresholdFlags # {}) =>
                    Range(flags) \subseteq ThresholdFlags

\* C10's case: more than ten equal positions, none of them young, under
\* thresholds none of which is crossed: the sentinel alone.
C10_Witness ==
    /\ analysis.analyzer = "concentration"
    /\ analysis.size > TopN
    /\ analysis.result.risk_flags = <<"LOW_RISK">>


\* C11: when the fetch layer raises its terminal error during an analyzer's
\* analyze call, the analyzer catches it: analyze raises nothing and returns a
\* result with an error field and the flags ["NO_DATA"].
C11_FetchErrorBecomesNoData ==
    analysis_raised.fetch_error # "" =>
        /\ analysis_raised.raised = ""
        /\ analysis.analyzer = analysis_raised.analyzer
        /\ "error" \in DOMAIN analysis.result
        /\ analysis.result.risk_flags = <<"NO_DATA">>


\* ------------------------------------------------------ claims on RiskScorer
\* The four results a score call was given, in argument order.
Inputs ==
    <<scored.raw_metrics.concentration, scored.raw_metrics.liquidity_depth,
      scored.raw_metrics.market_risk, scored.raw_metrics.behavioral>>

Permutations4 == {p \in [1..4 -> 1..4] : \A i, j \in 1..4 : p[i] = p[j] => i = j}
Permuted(p) == Score(Inputs[p[1]], Inputs[p[2]], Inputs[p[3]], Inputs[p[4]])
EqualWeights == \A x, y \in Analyzers : weights[x] = weights[y]

\* C12, as stated: the output of score (composite score, level and flag set)
\* is the same under every permutation of its four input results, for all
\* inputs and all configured weight sets.
C12_ScoreIsPermutationInvariant ==
    scored # NotScored =>
        \A p \in Permutations4 :
            /\ Permuted(p).composite_score = scored.composite_score
            /\ Permuted(p).risk_level = scored.risk_level
            /\ Range(Permuted(p).risk_flags) = Range(scored.risk_flags)

\* C12, amended: under every permutation of the four input results the flag
\* set of score is the same, whatever the weights; the composite score and
\* the level are the same when the four configured weights are equal.
C12_FlagSetInvariantAndScoreUnderEqualWeights ==
    scored # NotScored =>
        \A p \in Permutations4 :
            LET permuted == Permuted(p)
            IN  /\ Range(permuted.risk_flags) = Range(scored.risk_flags)
                /\ EqualWeights =>
                    /\ permuted.composite_score = scored.composite_score
                    /\ permuted.risk_level = scored.risk_level

\* C12's case: equal weights, four results that differ in score and flags.
C12_Witness ==
    /\ scored # NotScored
    /\ EqualWeights
    /\ scored.component_scores.concentration = 100
    /\ scored.component_scores.behavioral = 0
    /\ Inputs[2] = NoDataResult
    /\ Inputs[3] = ScoredResult(<<"HIGH_GINI">>, 0)

\* The flags of the four inputs, read off the results, in argument order.
RECURSIVE FlagsOf(_)
FlagsOf(inputs) ==
    IF inputs = <<>> THEN <<>>
    ELSE (IF "risk_flags" \in DOMAIN inputs[1] THEN inputs[1].risk_flags ELSE <<>>)
            \o FlagsOf(Tail(inputs))

\* C13: the flag list score returns is never empty; it contains the sentinel
\* LOW_RISK if and only if no input flag list contains a flag other than
\* LOW_RISK; otherwise it is exactly the non-sentinel flags of the four inputs.
C13_SentinelOnlyWithoutOtherFlags ==
    scored # NotScored =>
        LET given == FlagsOf(Inputs)
            others == SelectSeq(given, LAMBDA f : f # "LOW_RISK")
        IN  /\ scored.risk_flags # <<>>
            /\ "LOW_RISK" \in Range(scored.risk_flags) <=> others = <<>>
            /\ others = <<>> => scored.risk_flags = <<"LOW_RISK">>
            /\ others # <<>> => scored.risk_flags = others

\* C13's case: sentinels and a real flag among the inputs: the sentinel is dropped.
C13_Witness ==
    /\ scored # NotScored
    /\ Inputs[1] = ScoredResult(<<"LOW_RISK">>, 0)
    /\ Inputs[2] = ScoredResult(<<"HIGH_GINI">>, 100)
    /\ Inputs[3] = ScoredResult(<<"LOW_RISK">>, 0)
    /\ Inputs[4] = EmptyResult
    /\ scored.risk_flags = <<"HIGH_GINI">>

\* C14: the flag list score returns is deduplicated: no flag name appears in
\* it more than once, even when several component results emit the same flag.
C14_FlagsAreDeduplicated ==
    scored # NotScored =>
        Cardinality(Range(scored.risk_flags)) = Len(scored.risk_flags)

\* The configuration C15 supposes: bands covering 0..100, weights summing to 1.
BandsCover == \A n \in 0..100 : \E i \in DOMAIN risk_levels :
                risk_levels[i].min <= n /\ n <= risk_levels[i].max
BandsHolding(n) == {i \in DOMAIN risk_levels : risk_levels[i].min <= n /\ n <= risk_levels[i].max}
WeightsSumToOne ==
    Add(Add(weights["concentration"], weights["liquidity_depth"]),
        Add(weights["market_risk"], weights["behavioral"])) = Whole(1)

\* C15: with bands covering 0..100, weights summing to 1 and component scores
\* in 0..100, score returns an integer composite score in 0..100 and the
\* level of a band that contains it, never UNKNOWN; and whatever the
\* configuration, a composite score outside every band yields UNKNOWN.
C15_ScoreInRangeAndLevelOfItsBand ==
    scored # NotScored =>
        /\ (BandsCover /\ WeightsSumToOne) =>
            /\ scored.composite_score \in 0..100
            /\ scored.risk_level # "UNKNOWN"
        /\ BandsHolding(scored.composite_score) # {} =>
            \E i \in BandsHolding(scored.composite_score) :
                /\ scored.risk_level = Upper(risk_levels[i].level)
                /\ \A j \in BandsHolding(scored.composite_score) : i <= j
        /\ BandsHolding(scored.composite_score) = {} => scored.risk_level = "UNKNOWN"

\* C15's case: a valid configuration, unequal weights, a score on the lower
\* edge of the highest band.
C15_Witness ==
    /\ scored # NotScored
    /\ BandsCover /\ WeightsSumToOne /\ ~EqualWeights
    /\ scored.composite_score = 76
    /\ scored.risk_level = "CRITICAL"

\* ------------------------------------------------ claims on PlanExecuteGraph
Planned == visited # <<>>

\* C16: whenever the planner returns needs_comprehensive = true, tools_to_call
\* after the plan step is exactly the four analyzer tools (concentration,
\* liquidity depth, market risk, behavioral), whatever list the planner
\* proposed and whatever tools are registered.
C16_ComprehensivePlanIsFullAnalyzerSet ==
    (Planned /\ plan_result.raised = "" /\ plan_result.needs_comprehensive) =>
        graph_state.tools_to_call =
            <<"analyze_concentration_risk", "analyze_liquidity_depth",
              "analyze_market_risk", "analyze_behavioral_risk">>

\* C16's case: a comprehensive plan proposing the composite only, with no
\* tool registered.
C16_Witness ==
    /\ Planned
    /\ plan_result.needs_comprehensive
    /\ plan_result.tools_to_call = <<CompositeTool>>
    /\ registered = {}
    /\ Len(graph_state.tools_to_call) = 4

TimesVisited(n) == Cardinality({i \in DOMAIN visited : visited[i] = n})

C18_PlannerFailureStillFinalizes ==
    (Planned /\ plan_result.raised # "") =>
        /\ graph_state.tools_to_call = <<>>
        /\ calls = <<[kind |-> "planner"]>>
        /\ tasks = <<>>
        /\ node \in {"finalize", "END"}
        /\ node = "END" =>
            /\ visited = <<"plan", "finalize">>
            /\ graph_state.answer # ""
            /\ graph_state.metadata.plan = "Planning failed: " \o plan_result.raised
            /\ graph_state.metadata.tools_called = <<>>

\* C18's case: the run is over after a planner failure.
C18_Witness ==
    /\ node = "END"
    /\ plan_result.raised = "planner unavailable"
    /\ graph_state.answer = "No answer generated"

\* The entries of tool_results that are not the composite's.
WaveEntries ==
    SelectSeq(graph_state.tool_results,
              LAMBDA e : ~("tool" \in DOMAIN e /\ e.tool = CompositeTool))
SelectedNonComposite ==
    SelectSeq(graph_state.tools_to_call, LAMBDA t : t # "calculate_composite_risk_score")
ExecuteToolsDone == "tool_results" \in DOMAIN graph_state

\* One entry per selected non-composite tool, in the order of the list: a
\* result entry or an error entry, an error entry for a tool not registered.
OneEntryPerSelectedTool ==
    /\ Len(WaveEntries) = Len(SelectedNonComposite)
    /\ \A i \in DOMAIN WaveEntries :
        /\ "tool" \in DOMAIN WaveEntries[i]
        /\ WaveEntries[i].tool = SelectedNonComposite[i]
        /\ ("result" \in DOMAIN WaveEntries[i]) # ("error" \in DOMAIN WaveEntries[i])
        /\ SelectedNonComposite[i] \notin registered => "error" \in DOMAIN WaveEntries[i]
        /\ WaveEntries[i] = tasks[i].entry

\* C19: execute_tools completes only after every launched tool has
\* settled, and tool_results then holds exactly one entry per selected
\* non-composite tool, a result entry for a success and an error entry for a
\* failure (exception or tool not registered).
C19_OneEntryPerSelectedTool ==
    ExecuteToolsDone =>
        /\ \A i \in DOMAIN tasks : tasks[i].status = "settled"
        /\ OneEntryPerSelectedTool

CompositeCalls == SelectSeq(calls, LAMBDA c : c.kind = "composite")

\* C20: the composite tool is never launched in the first wave; it is invoked
\* at most once per request, only after every tool of the wave has settled,
\* only when it was selected and at least four successful results exist, and
\* its four inputs are the results of the corresponding four analyzers.
C20_CompositeAfterWaveOnAnalyzerResults ==
    /\ \A i \in DOMAIN tasks : tasks[i].tool # "calculate_composite_risk_score"
    /\ \A i \in DOMAIN calls :
        (calls[i].kind = "tool") => calls[i].tool # "calculate_composite_risk_score"
    /\ Len(CompositeCalls) <= 1
    /\ CompositeCalls # <<>> =>
        LET succeeded == {i \in DOMAIN tasks : "result" \in DOMAIN tasks[i].entry}
            inputs == CompositeCalls[1].inputs
        IN  /\ CompositeCalls[1].pending = 0
            /\ \A i \in DOMAIN tasks : tasks[i].status = "settled"
            /\ \E i \in DOMAIN graph_state.tools_to_call :
                graph_state.tools_to_call[i] = "calculate_composite_risk_score"
            /\ Cardinality(succeeded) >= 4
            /\ \A k \in 1..4 :
                \E i \in succeeded :
                    /\ tasks[i].tool =
                        <<"analyze_concentration_risk", "analyze_liquidity_depth",
                          "analyze_market_risk", "analyze_behavioral_risk">>[k]
                    /\ inputs[k] = tasks[i].entry.result

\* C20's case: the composite was invoked and its result is in tool_results,
\* after a wave in which one tool ran twice.
C20_Witness ==
    /\ node = "END"
    /\ CompositeCalls # <<>>
    /\ Len(tasks) = 5
    /\ Len(graph_state.tool_results) = 6
    /\ graph_state.tool_results[6].tool = CompositeTool
    /\ "risk_score" \in DOMAIN graph_state.metadata

SynthesisFailed ==
    /\ "synthesized_answer" \in DOMAIN graph_state
    /\ visited # <<>>
    /\ visited[Len(visited)] \in {"synthesize", "finalize"}
    /\ "synthesize" \in Range(visited)
    /\ graph_state.synthesized_answer # "synthesized answer"

\* C21: when the synthesis call fails the request does not fail: the
\* synthesized answer contains the raw results of every tool, the error
\* entries included, the next node is finalize, and the answer returned is
\* that synthesized answer.
C21_SynthesisFailureKeepsRawResults ==
    SynthesisFailed =>
        /\ node \in {"finalize", "END"}
        /\ node = "END" => graph_state.answer = graph_state.synthesized_answer
        /\ \A i \in DOMAIN graph_state.tool_results :
            LET tr == graph_state.tool_results[i]
            IN  /\ "tool" \in DOMAIN tr => Contains(graph_state.synthesized_answer, tr.tool)
                /\ "error" \in DOMAIN tr =>
                        Contains(graph_state.synthesized_answer, "ERROR - " \o tr.error)
                /\ "result" \in DOMAIN tr =>
                        Contains(graph_state.synthesized_answer, ToString(tr.result))

\* C21's case: the synthesis failed after one tool failed and one succeeded,
\* and the run is over.
C21_Witness ==
    /\ SynthesisFailed
    /\ node = "END"
    /\ Len(graph_state.tool_results) = 2
    /\ "error" \in DOMAIN graph_state.tool_results[1]
    /\ "result" \in DOMAIN graph_state.tool_results[2]

\* --- the behavioral analyzer's detection steps
SandwichDetected == analysis.analyzer = "behavioral" /\ analysis_locals.mev # <<>>
WashDetected == analysis.analyzer = "behavioral" /\ analysis_locals.wash # <<>>

\* b is the swap that follows a in the id order of a's block.
NextInBlock(swaps, a, b) ==
    /\ swaps[a].transaction.blockNumber = swaps[b].transaction.blockNumber
    /\ swaps[a].id < swaps[b].id
    /\ ~ \E k \in DOMAIN swaps :
            /\ swaps[k].transaction.blockNumber = swaps[a].transaction.blockNumber
            /\ swaps[a].id < swaps[k].id
            /\ swaps[k].id < swaps[b].id

\* The middle transactions of the consecutive triples of one block whose
\* outer swaps share an origin that the middle swap does not have.
MiddlesOfTriples(swaps) ==
    {swaps[b].transaction.id :
        b \in {m \in DOMAIN swaps :
                \E a, c \in DOMAIN swaps :
                    /\ NextInBlock(swaps, a, m)
                    /\ NextInBlock(swaps, m, c)
                    /\ swaps[a].origin = swaps[c].origin
                    /\ swaps[m].origin # swaps[a].origin}}

\* Three swaps of one block whose origins are X, Y, X in id order.
OneBlockXYX(swaps) ==
    /\ Len(swaps) = 3
    /\ \A i \in 1..3 : swaps[i].transaction.blockNumber = swaps[1].transaction.blockNumber
    /\ swaps[1].id > swaps[2].id
    /\ swaps[2].id > swaps[3].id
    /\ swaps[1].origin = swaps[3].origin
    /\ swaps[2].origin # swaps[1].origin

\* C26: the victims _detect_sandwich_attacks records are exactly the
\* transaction ids of the middle swaps of consecutive triples, taken within
\* one block in id order, whose first and third swaps share an origin that
\* differs from the middle swap's; swaps of different blocks form no triple;
\* origins X, Y, X in one block give exactly the Y swap's transaction.
C26_VictimsAreMiddlesOfSameBlockTriples ==
    SandwichDetected =>
        LET swaps == analysis_locals.fetched
            sandwich_victims == analysis_locals.mev[2]
        IN  /\ sandwich_victims = MiddlesOfTriples(swaps)
            /\ analysis.result.sandwich_victims = Cardinality(sandwich_victims)
            /\ OneBlockXYX(swaps) => sandwich_victims = {swaps[2].transaction.id}
            /\ Len(BlockKeys(swaps)) = Len(swaps) => sandwich_victims = {}

\* C26's case: three swaps of one block, origins X, Y, X, one victim found.
C26_Witness ==
    /\ SandwichDetected
    /\ OneBlockXYX(analysis_locals.fetched)
    /\ analysis_locals.mev[2] = {analysis_locals.fetched[2].transaction.id}
    /\ analysis.result.sandwich_victims = 1

\* The sender-recipient pairs of a block that appear in both directions.
MutualPairs(swaps) ==
    {<<block, pair>> \in Blocks \X SUBSET Addresses :
        /\ Cardinality(pair) = 2
        /\ \A from \in pair : \E i \in DOMAIN swaps :
                /\ swaps[i].transaction.blockNumber = block
                /\ swaps[i].sender = from
                /\ swaps[i].recipient \in pair \ {from}}

\* suspicious_swap_count, from the percentage it is returned as.
SuspiciousSwapCount == DivBy(Mul(analysis_locals.wash[1], Whole(Len(analysis_locals.fetched))), 100)

\* C27: each sender-recipient pair that appears as a mutual directed pair
\* within one block contributes exactly 2 to the suspicious-swap counter; a
\* block holding exactly the swaps A->B and B->A yields a counter of 2.
C27_MutualPairContributesTwo ==
    (/\ WashDetected
     /\ \A i \in DOMAIN analysis_locals.fetched :
            analysis_locals.fetched[i].sender # analysis_locals.fetched[i].recipient)
        => SuspiciousSwapCount = Whole(2 * Cardinality(MutualPairs(analysis_locals.fetched)))

\* --- the concentration analyzer on equal positions
TenEqualPositions ==
    /\ analysis.analyzer = "concentration"
    /\ Len(analysis_locals.fetched) = 10
    /\ \A i \in 1..10 : analysis_locals.fetched[i].liquidity = analysis_locals.fetched[1].liquidity

FlagsEmitted == Range(analysis.result.risk_flags)

\* C28: for 10 positions of equal liquidity the analyzer reports Gini 0,
\* HHI 1000 and top-10 dominance 100%; with a dominance threshold below 100
\* and Gini and HHI thresholds above 0 and 1000 the flags hold a top-10
\* dominance flag and no Gini or HHI flag; and no analysis emits both the
\* CRITICAL and the HIGH flag of one metric.
C28_EqualPositionsAndOneFlagPerMetric ==
    /\ TenEqualPositions =>
        LET thresholds == config.risk_thresholds.concentration
        IN  /\ analysis.result.gini_coefficient = 0
            /\ analysis.result.herfindahl_hirschman_index = 1000 * Pow10(2)
            /\ analysis.result.top10_dominance_pct = 100 * Pow10(2)
            /\ (/\ Lt(thresholds.top10_dominance_high_risk_pct, Whole(100))
                /\ Gt(thresholds.gini_high_risk, Whole(0))
                /\ Gt(thresholds.gini_critical, Whole(0))
                /\ Gt(thresholds.hhi_high_risk, Whole(1000))
                /\ Gt(thresholds.hhi_critical, Whole(1000)))
                    => /\ FlagsEmitted \cap {"CRITICAL_TOP10_DOMINANCE", "HIGH_TOP10_DOMINANCE"} # {}
                       /\ FlagsEmitted \cap {"CRITICAL_GINI", "HIGH_GINI",
                                             "CRITICAL_HHI", "HIGH_HHI"} = {}
    /\ analysis.analyzer = "concentration" =>
            \A metric \in {"TOP10_DOMINANCE", "GINI", "HHI"} :
                ~ ({"CRITICAL_" \o metric, "HIGH_" \o metric} \subseteq FlagsEmitted)

\* C28's case: 10 equal positions analysed under thresholds of 80 and 50 for
\* the dominance, and the critical dominance flag alone of the metric flags.
C28_Witness ==
    /\ TenEqualPositions
    /\ config = Config(FALSE)
    /\ analysis.result.herfindahl_hirschman_index = 1000 * Pow10(2)
    /\ "CRITICAL_TOP10_DOMINANCE" \in FlagsEmitted
    /\ "HIGH_TOP10_DOMINANCE" \notin FlagsEmitted

\* ---------------------------------------------- claims on OrchestratorGraph
RunOver == orch_node = "END" /\ requests_handled > 0

\* C22: after any discover_agents call, over any sequence of requests of one
\* instance, the routing table holds an agent if and only if that agent's
\* card fetch succeeded in that call.
C22_RoutingTableIsWhatTheCallResolved ==
    (requests_handled > 0 /\ orch_node # "discover_agents")
        => remote_agent_connections = resolved

InvokeNodesRun ==
    SelectSeq(orch_visited, LAMBDA n : n \in {"invoke_pool_risk", "invoke_token_intel"})

\* C23: the agent invocations are fixed by the routing decision: "pool_risk"
\* invokes only the pool-risk agent, "token_intel" only the token-intelligence
\* agent, "both" and any other value the pool-risk agent and then the
\* token-intelligence agent; each at most once, and the run ends in
\* finalize_output.
C23_InvocationsFixedByRoutingDecision ==
    RunOver =>
        LET decision == overall_state.routing_decision
        IN  /\ InvokeNodesRun =
                    IF decision = "pool_risk" THEN <<"invoke_pool_risk">>
                    ELSE IF decision = "token_intel" THEN <<"invoke_token_intel">>
                    ELSE <<"invoke_pool_risk", "invoke_token_intel">>
            /\ Last(orch_visited) = "finalize_output"

SubResults == {"pool_risk_result", "token_intel_result"} \cap DOMAIN overall_state
AgentOf(field) == IF field = "pool_risk_result" THEN "pool_risk" ELSE "token_intelligence"

\* The mean of the sub-scores that are present and not zero, 0 without any.
MeanOfPresent ==
    LET present == {f \in SubResults : overall_state[f].risk_score # 0}
        Part(f) == IF f \in present THEN overall_state[f].risk_score ELSE 0
        total == Part("pool_risk_result") + Part("token_intel_result")
    IN  IF present = {} THEN Whole(0) ELSE Frac(total, Cardinality(present))

C25_UnavailableAgentYieldsPlaceholder ==
    /\ \A f \in SubResults :
        LET r == overall_state[f]
            calls_made == SelectSeq(sent, LAMBDA c : c.agent = AgentOf(f))
        IN  /\ Len(calls_made) <= 1
            /\ AgentOf(f) \notin remote_agent_connections =>
                    /\ calls_made = <<>>
                    /\ r.risk_score = 0
                    /\ "error" \in DOMAIN r.metadata
                    /\ r.metadata.error = "Agent not discovered"
            /\ (calls_made # <<>> /\ calls_made[1].raised # "") =>
                    /\ r.risk_score = 0
                    /\ "error" \in DOMAIN r.metadata
                    /\ r.metadata.error = calls_made[1].raised
    /\ RunOver =>
        /\ SubSeq(orch_visited, Len(orch_visited) - 1, Len(orch_visited))
                = <<"synthesize_results", "finalize_output">>
        /\ overall_state.routing_decision = "both" =>
                SubResults = {"pool_risk_result", "token_intel_result"}
        /\ "answer" \in DOMAIN overall_state

\* C25's case: under "both" the pool-risk agent was not in the table, the call
\* to the token-intelligence agent timed out, and the run is over.
C25_Witness ==
    /\ RunOver
    /\ overall_state.routing_decision = "both"
    /\ "pool_risk" \notin remote_agent_connections
    /\ sent = <<[agent |-> "token_intelligence", raised |-> "timed out"]>>
    /\ overall_state.token_intel_result.metadata.error = "timed out"
    /\ overall_state.risk_score = Whole(0)

\* -------------------------------------------------- claims on PoolRiskAgent
\* C29: the agent never fails startup or a request because tools failed to
\* register: after startup a graph is held, so graph_instance is defined at
\* every invoke; an agent whose server was unreachable at startup, or whose
\* tool loading on the first request failed or returned no tools, serves that
\* request and all later ones through the static pipeline, and does not try
\* to load again.
C29_ToolFailureLeavesStaticGraph ==
    /\ agent_pc # "new" => graph_instance \in {"PoolRiskGraph", "PlanExecuteGraph"}
    /\ \A i \in DOMAIN served : served[i].graph \in {"PoolRiskGraph", "PlanExecuteGraph"}
    /\ probe = "ConnectError" =>
            /\ loads = <<>>
            /\ graph_instance = "PoolRiskGraph"
            /\ \A i \in DOMAIN served : served[i].graph = "PoolRiskGraph"
    /\ (loads # <<>> /\ loads[1] # "tools") =>
            /\ Len(loads) = 1
            /\ graph_instance = "PoolRiskGraph"
            /\ \A i \in DOMAIN served : served[i].graph = "PoolRiskGraph"

\* C29's case: the server answered the probe, the tool loading of the first
\* request failed, and two requests were served through the static pipeline.
C29_Witness ==
    /\ probe = "response"
    /\ loads = <<"Exception">>
    /\ Len(served) = 2
    /\ \A i \in 1..2 : served[i].done /\ served[i].graph = "PoolRiskGraph"
    /\ ~ mcp_available

\* C30: a request served by the static pipeline never ends in a hard failure:
\* when run_analyses sets exit_flag (no pool address, or an analysis raised)
\* the run goes to finalize_output, which returns an answer carrying the
\* failure reason instead of raising.
C30_ExitFlagRunsEndWithAnswer ==
    \A i \in DOMAIN served :
        (/\ served[i].graph = "PoolRiskGraph"
         /\ served[i].done
         /\ i = Len(served)
         /\ Get(run_state, "exit_flag", FALSE))
            => /\ served[i].raised = ""
               /\ Contains(served[i].answer, run_state.tool_results[1].error)

\* C37: the wash-trading percentage lies in 0..100 for every non-empty swap
\* list: the suspicious-swap counter never exceeds the number of swaps analysed.
C37_WashPercentageWithinHundred ==
    (WashDetected /\ analysis_locals.fetched # <<>>)
        => /\ ~ Lt(analysis_locals.wash[1], Whole(0))
           /\ ~ Gt(analysis_locals.wash[1], Whole(100))
           /\ ~ Gt(SuspiciousSwapCount, Whole(Len(analysis_locals.fetched)))

\* --- the plan step on a plan that is not comprehensive
PlannedSelection ==
    /\ Planned
    /\ plan_result.raised = ""
    /\ ~ plan_result.needs_comprehensive

\* The registered names of a proposal, in the order proposed.
RECURSIVE RegisteredOf(_)
RegisteredOf(proposal) ==
    IF proposal = <<>> THEN <<>>
    ELSE IF Head(proposal) \in registered
         THEN <<Head(proposal)>> \o RegisteredOf(Tail(proposal))
         ELSE RegisteredOf(Tail(proposal))

\* C32: when the planner returns needs_comprehensive = false, tools_to_call
\* after the plan step is the proposed list restricted to the registered tool
\* names, in the proposed order; an unregistered name is never passed on to
\* execute_tools, and a proposal without any registered name routes to
\* no_tools_response.
C32_SelectionIsRegisteredPartOfProposal ==
    PlannedSelection =>
        /\ graph_state.tools_to_call = RegisteredOf(plan_result.tools_to_call)
        /\ \A i \in DOMAIN tasks : tasks[i].tool \in registered
        /\ \A i \in DOMAIN calls :
            calls[i].kind = "tool" => calls[i].tool \in registered
        /\ (\A i \in DOMAIN plan_result.tools_to_call :
                plan_result.tools_to_call[i] \notin registered)
            => /\ "execute_tools" \notin Range(visited)
               /\ node = "no_tools_response" \/ visited[2] = "no_tools_response"

\* C32's case: a proposal of an unregistered name followed by a registered
\* one, whose wave has been launched.
C32_Witness ==
    /\ PlannedSelection
    /\ Len(plan_result.tools_to_call) = 2
    /\ plan_result.tools_to_call[1] \notin registered
    /\ plan_result.tools_to_call[2] \in registered
    /\ plan_result.tools_to_call[2] # CompositeTool
    /\ Len(tasks) = 1
    /\ node = "END"

\* --- execute_tools without a pool address
EnteredWithoutAddress ==
    /\ "execute_tools" \in Range(visited)
    /\ Get(graph_state, "pool_address", "") = ""

\* C33: when execute_tools runs without a pool address no tool is invoked,
\* tool_results holds exactly one error entry, and the run goes on through
\* synthesize to finalize.
C33_NoAddressYieldsOneErrorThenSynthesis ==
    EnteredWithoutAddress =>
        /\ tasks = <<>>
        /\ \A i \in DOMAIN calls : calls[i].kind \notin {"tool", "composite"}
        /\ Len(graph_state.tool_results) = 1
        /\ DOMAIN graph_state.tool_results[1] = {"error"}
        /\ node \in {"synthesize", "finalize", "END"}
        /\ node = "finalize" => visited = <<"plan", "execute_tools", "synthesize">>
        /\ node = "END" => visited = <<"plan", "execute_tools", "synthesize", "finalize">>

\* C33's case: a run without pool address, for which tools were selected, is
\* over.
C33_Witness ==
    /\ EnteredWithoutAddress
    /\ Len(graph_state.tools_to_call) = 2
    /\ node = "END"
    /\ "answer" \in DOMAIN graph_state

\* --- finalize
CompositeScoreEntries(tool_results) ==
    {i \in DOMAIN tool_results :
        /\ "tool" \in DOMAIN tool_results[i]
        /\ tool_results[i].tool = CompositeTool
        /\ "result" \in DOMAIN tool_results[i]
        /\ "composite_score" \in DOMAIN tool_results[i].result}

CompositeSelectedNotRun ==
    /\ "execute_tools" \in Range(visited)
    /\ node \in {"synthesize", "finalize", "END"}
    /\ Get(graph_state, "pool_address", "") # ""
    /\ CompositeTool \in Range(graph_state.tools_to_call)
    /\ CompositeTool \in registered
    /\ ~ \E i \in DOMAIN graph_state.tool_results :
            /\ graph_state.tool_results[i].tool = CompositeTool
            /\ "result" \in DOMAIN graph_state.tool_results[i]

\* C35: when the composite tool is selected but cannot run, because fewer
\* than four prerequisite results succeeded or because its invocation raised,
\* tool_results contains an error entry for calculate_composite_risk_score.
C35_CompositeThatCannotRunLeavesErrorEntry ==
    CompositeSelectedNotRun =>
        \E i \in DOMAIN graph_state.tool_results :
            /\ graph_state.tool_results[i].tool = CompositeTool
            /\ "error" \in DOMAIN graph_state.tool_results[i]

\* The number of times ainvoke was called on a tool.
TimesInvoked(tool) ==
    Cardinality({i \in DOMAIN calls :
        \/ calls[i].kind = "tool" /\ calls[i].tool = tool
        \/ calls[i].kind = "composite" /\ tool = CompositeTool})

\* C38: within one request each tool is invoked at most once, whatever list
\* the planner returns, a list naming one tool several times included.
C38_EachToolInvokedAtMostOnce ==
    \A tool \in AvailableTools : TimesInvoked(tool) <= 1

\* --- the static pipeline when an analyzer raises
AnalyzerRaised ==
    /\ agent_pc = "running"
    /\ run_node # "run_analyses"
    /\ \E i \in DOMAIN analyzed : analyzed[i].raised # ""

\* C31: in run_analyses an error in one analyzer degrades only that
\* analyzer's result: the results of the analyzers that succeeded stay in
\* tool_results and the remaining analyzers still run.
C31_AnalyzerErrorSparesSiblings ==
    AnalyzerRaised =>
        /\ {analyzed[i].analyzer : i \in DOMAIN analyzed} = Analyzers
        /\ \A i \in DOMAIN analyzed :
            analyzed[i].raised = "" =>
                \E j \in DOMAIN run_state.tool_results :
                    analyzed[i].analyzer \in DOMAIN run_state.tool_results[j]

\* --- the graph that serves a request when tools are held
\* C39: after any sequence of invoke and refresh_mcp_tools calls, a request
\* that starts while mcp_tools is non-empty is served by the plan-execute
\* graph built from those tools, never by the static pipeline.
C39_ToolsHeldMeansPlanExecuteGraph ==
    /\ (agent_pc = "ready" /\ mcp_tools # <<>>) => graph_instance = "PlanExecuteGraph"
    /\ (agent_pc = "running" /\ mcp_tools # <<>>) =>
            served[Len(served)].graph = "PlanExecuteGraph"

\* --- concurrent first requests
ToolsLoads == {i \in DOMAIN loads : loads[i] = "tools"}

\* C40: when several first requests run concurrently while the server is
\* marked available and no tools are loaded, the tools are loaded and the
\* graph rebuilt at most once, and a load that fails later never clears the
\* tools another request has loaded.
C40_ConcurrentFirstRequestsLoadOnce ==
    /\ Len(loads) <= 1
    /\ Cardinality(ToolsLoads) <= 1
    /\ ToolsLoads # {} => mcp_tools # <<>>

\* --- fetch_all on the swaps query
\* C36: the swaps fetch, which asks for pages ordered by timestamp, newest
\* first, and moves an exclusive id cursor, returns each matching swap at most
\* once and misses none, whatever the ids and timestamps of the swaps.
C36_SwapsFetchedOnceEach ==
    fpc = "done" =>
        /\ \A i, j \in DOMAIN fresult : fresult[i] = fresult[j] => i = j
        /\ Range(fresult) = dataset

====
